---- MODULE Spec2Model ----
(***************************************************************************)
(* Model of the Measure value type of dank-extract (package ct,            *)
(* measure.go): the string classification predicates, the sentinel        *)
(* encoding of Empty / Zero / Trace in a single float64, and the          *)
(* constructors and parsers that set a Measure, and its serializers       *)
(* (specification Spec); and of one call of a process<Dataset> function   *)
(* of the command, main.go (specification SpecRun).                       *)
(*                                                                         *)
(* Strings are sequences of one-character strings.  A float64 is a record *)
(*   [k, neg, dig, ord]                                                    *)
(* k = "nan", "inf" or "fin"; a finite value is (+/-) 0.d1d2d3.. * 10^ord  *)
(* with dig = <<d1, d2, ..>> free of leading and trailing zeros (empty    *)
(* for zero).  A decimal stands for the float64 nearest to it.  The       *)
(* character universe has no 'x', 'p' or '_', so hexadecimal and          *)
(* underscore-separated literals are outside the modelled inputs.         *)
(***************************************************************************)
EXTENDS Integers, Sequences, FiniteSets, TLC

---------------------------------------------------------------------------
(* Bounds *)

\* longest enumerated input string
MaxLen == 2

---------------------------------------------------------------------------
(* package strings *)

RECURSIVE HasPrefixFrom(_, _, _)
HasPrefixFrom(s, p, i) ==
    IF i > Len(p) THEN TRUE
    ELSE IF i > Len(s) THEN FALSE
    ELSE s[i] = p[i] /\ HasPrefixFrom(s, p, i + 1)

HasPrefix(s, p) == Len(s) >= Len(p) /\ HasPrefixFrom(s, p, 1)

HasSuffix(s, p) ==
    /\ Len(s) >= Len(p)
    /\ SubSeq(s, Len(s) - Len(p) + 1, Len(s)) = p

Contains(s, sub) ==
    \E i \in 1..(Len(s) - Len(sub) + 1) : SubSeq(s, i, i + Len(sub) - 1) = sub

ContainsAny(s, chars) == \E i \in 1..Len(s) : s[i] \in chars

Count(s, c) == Cardinality({i \in 1..Len(s) : s[i] = c})

TrimPrefix(s, p) == IF HasPrefix(s, p) THEN SubSeq(s, Len(p) + 1, Len(s)) ELSE s

TrimSuffix(s, p) == IF HasSuffix(s, p) THEN SubSeq(s, 1, Len(s) - Len(p)) ELSE s

---------------------------------------------------------------------------
(* float64 *)

NaN == [k |-> "nan", neg |-> FALSE, dig |-> <<>>, ord |-> 0]

Inf(sign) == [k |-> "inf", neg |-> (sign < 0), dig |-> <<>>, ord |-> 0]

FZero(negative) == [k |-> "fin", neg |-> negative, dig |-> <<>>, ord |-> 0]

\* the finite non-zero value (+/-) 0.d1d2.. * 10^o
Dec(negative, d, o) == [k |-> "fin", neg |-> negative, dig |-> d, ord |-> o]

IsNaN(f) == f.k = "nan"

IsInf(f, sign) ==
    /\ f.k = "inf"
    /\ \/ sign = 0
       \/ sign > 0 /\ ~f.neg
       \/ sign < 0 /\ f.neg

IsFZero(f) == f.k = "fin" /\ f.dig = <<>>

\* digit sequences compared as the decimal fractions 0.a and 0.b
RECURSIVE LexLt(_, _)
LexLt(a, b) ==
    IF b = <<>> THEN FALSE
    ELSE IF a = <<>> THEN TRUE
    ELSE IF Head(a) # Head(b) THEN Head(a) < Head(b)
    ELSE LexLt(Tail(a), Tail(b))

\* magnitudes of two non-NaN values: |a| < |b|
MagLt(a, b) ==
    IF a.k = "inf" THEN FALSE
    ELSE IF b.k = "inf" THEN TRUE
    ELSE IF b.dig = <<>> THEN FALSE
    ELSE IF a.dig = <<>> THEN TRUE
    ELSE a.ord < b.ord \/ (a.ord = b.ord /\ LexLt(a.dig, b.dig))

\* the float64 operator ==  (NaN equals nothing, -0 equals +0)
FEq(a, b) ==
    /\ ~IsNaN(a)
    /\ ~IsNaN(b)
    /\ \/ IsFZero(a) /\ IsFZero(b)
       \/ a = b

\* the float64 operator <
FLt(a, b) ==
    /\ ~IsNaN(a)
    /\ ~IsNaN(b)
    /\ ~(IsFZero(a) /\ IsFZero(b))
    /\ IF IsFZero(a) THEN ~b.neg
       ELSE IF IsFZero(b) THEN a.neg
       ELSE IF a.neg # b.neg THEN a.neg
       ELSE IF a.neg THEN MagLt(b, a)
       ELSE MagLt(a, b)

\* the float64 operators <= and >=
FLe(a, b) == FLt(a, b) \/ FEq(a, b)

FGe(a, b) == FLe(b, a)

---------------------------------------------------------------------------
(* characters *)

Digits == <<"0", "1", "2", "3", "4", "5", "6", "7", "8", "9">>

LowerLetters ==
    <<"a", "b", "c", "d", "e", "f", "g", "h", "i", "j", "k", "l", "m",
      "n", "o", "p", "q", "r", "s", "t", "u", "v", "w", "x", "y", "z">>

UpperLetters ==
    <<"A", "B", "C", "D", "E", "F", "G", "H", "I", "J", "K", "L", "M",
      "N", "O", "P", "Q", "R", "S", "T", "U", "V", "W", "X", "Y", "Z">>

Range(f) == {f[i] : i \in DOMAIN f}

IsDigit(c) == c \in Range(Digits)

DigitVal(c) == (CHOOSE i \in DOMAIN Digits : Digits[i] = c) - 1

\* strconv's lower(c) on the characters it is applied to
lower(c) ==
    IF c \in Range(UpperLetters)
    THEN LowerLetters[CHOOSE i \in DOMAIN UpperLetters : UpperLetters[i] = c]
    ELSE c

\* isLetter returns true if c is a letter (a-z, A-Z)
isLetterUpperOnly(c) == c \in Range(UpperLetters)

isLetter(c) == c \in Range(LowerLetters) \/ c \in Range(UpperLetters)

---------------------------------------------------------------------------
(* classification predicates *)

IsTraceMeasurement(str) ==
    \/ str = <<"T", "R", "C">>
    \/ Contains(str, <<"L", "O", "Q">>)
    \/ HasPrefix(str, <<"<">>)

IsEmptyMeasurementNoDash(str) ==
    str = <<>> \/ str = <<".">> \/ HasPrefix(str, <<"-", "-">>)

IsEmptyMeasurement(str) ==
    \/ str = <<>>
    \/ str = <<".">>
    \/ str = <<"-">>
    \/ HasPrefix(str, <<"-", "-">>)

\* the known-bad literals of IsErrorMeasurement
BadLiteral == <<"0", "<", "0", ".", "1", "0">>

BadPrefixTerpinolene ==
    <<"t", "e", "r", "p", "i", "n", "o", "l", "e", "n", "e", ":", " ",
      "1", ".", "2", "2">>

BadPrefixOcimene ==
    <<"a", "-", "O", "c", "i", "m", "e", "n", "e", ":", " ", "1", ".", "0", "8">>

\* the backquote character (ASCII 96), which a TLA+ string cannot hold
Backquote == "BACKQUOTE"

ErrorChars == {",", Backquote, "/", "(", ")"}

IsErrorMeasurementNoLetters(str) ==
    \/ Count(str, ".") > 1
    \/ ContainsAny(str, ErrorChars)
    \/ str = BadLiteral
    \/ HasPrefix(str, BadPrefixTerpinolene)
    \/ HasPrefix(str, BadPrefixOcimene)

IsErrorMeasurement(str) ==
    \/ Count(str, ".") > 1
    \/ ContainsAny(str, ErrorChars)
    \/ (Len(str) > 0 /\ isLetter(str[1]))
    \/ str = BadLiteral
    \/ HasPrefix(str, BadPrefixTerpinolene)
    \/ HasPrefix(str, BadPrefixOcimene)

---------------------------------------------------------------------------
(* strconv.ParseFloat(s, 64), decimal syntax *)

\* commonPrefixLenIgnoreCase(s, prefix), prefix in lower case
RECURSIVE commonPrefixLenFrom(_, _, _)
commonPrefixLenFrom(s, prefix, i) ==
    IF i > Len(s) \/ i > Len(prefix) THEN i - 1
    ELSE IF lower(s[i]) # prefix[i] THEN i - 1
    ELSE commonPrefixLenFrom(s, prefix, i + 1)

commonPrefixLenIgnoreCase(s, prefix) == commonPrefixLenFrom(s, prefix, 1)

\* special given n0, the length of the prefix of "infinity" that follows the
\* sign: [val, n, ok]
specialInf(s, n0) ==
    LET nsign == IF s[1] \in {"+", "-"} THEN 1 ELSE 0
        sign == IF s[1] = "-" THEN -1 ELSE 1
        n == IF 3 < n0 /\ n0 < 8 THEN 3 ELSE n0
    IN  IF n = 3 \/ n = 8
        THEN [val |-> Inf(sign), n |-> nsign + n, ok |-> TRUE]
        ELSE [val |-> FZero(FALSE), n |-> 0, ok |-> FALSE]

\* special: [val, n, ok] for the (possibly signed) infinities and for NaN
special(s) ==
    LET no == [val |-> FZero(FALSE), n |-> 0, ok |-> FALSE]
    IN  IF Len(s) = 0 THEN no
        ELSE IF s[1] \in {"+", "-"}
        THEN specialInf(s, commonPrefixLenIgnoreCase(Tail(s),
                               <<"i", "n", "f", "i", "n", "i", "t", "y">>))
        ELSE IF s[1] \in {"i", "I"}
        THEN specialInf(s, commonPrefixLenIgnoreCase(s,
                               <<"i", "n", "f", "i", "n", "i", "t", "y">>))
        ELSE IF s[1] \in {"n", "N"}
        THEN IF commonPrefixLenIgnoreCase(s, <<"n", "a", "n">>) = 3
             THEN [val |-> NaN, n |-> 3, ok |-> TRUE]
             ELSE no
        ELSE no

\* the mantissa loop of readFloat: dig are the digits from the first non-zero
\* one on, dp the position of the decimal point relative to them
RECURSIVE readMantissa(_, _, _, _, _, _)
readMantissa(s, i, sawdot, sawdigits, dig, dp) ==
    LET out == [i |-> i, sawdot |-> sawdot, sawdigits |-> sawdigits,
                dig |-> dig, dp |-> dp]
    IN  IF i > Len(s) THEN out
        ELSE IF s[i] = "."
        THEN IF sawdot THEN out
             ELSE readMantissa(s, i + 1, TRUE, sawdigits, dig, Len(dig))
        ELSE IF IsDigit(s[i])
        THEN IF s[i] = "0" /\ dig = <<>>
             THEN readMantissa(s, i + 1, sawdot, TRUE, dig, dp - 1)
             ELSE readMantissa(s, i + 1, sawdot, TRUE,
                               Append(dig, DigitVal(s[i])), dp)
        ELSE out

\* the exponent digits of readFloat: [i, e], e capped as in the source
RECURSIVE readExpDigits(_, _, _)
readExpDigits(s, i, e) ==
    IF i <= Len(s) /\ IsDigit(s[i])
    THEN readExpDigits(s, i + 1, IF e < 10000 THEN e * 10 + DigitVal(s[i]) ELSE e)
    ELSE [i |-> i, e |-> e]

\* readFloat after the mantissa loop has returned mt: the exponent and the
\* result [neg, dig, ord, n, ok]; the value read is 0.dig * 10^ord and n
\* characters were consumed
readFloatExponent(s, neg, mt) ==
    LET bad == [neg |-> FALSE, dig |-> <<>>, ord |-> 0, n |-> 0, ok |-> FALSE]
        dp == IF mt.sawdot THEN mt.dp ELSE Len(mt.dig)
        hasExp == mt.i <= Len(s) /\ lower(s[mt.i]) = "e"
        i1 == mt.i + 1
        esigned == i1 <= Len(s) /\ s[i1] \in {"+", "-"}
        esign == IF i1 <= Len(s) /\ s[i1] = "-" THEN -1 ELSE 1
        i2 == IF esigned THEN i1 + 1 ELSE i1
    IN  IF ~mt.sawdigits THEN bad
        ELSE IF ~hasExp
        THEN [neg |-> neg, dig |-> mt.dig, ord |-> dp, n |-> mt.i - 1, ok |-> TRUE]
        ELSE IF i1 > Len(s) THEN bad
        ELSE IF i2 > Len(s) \/ ~IsDigit(s[i2]) THEN bad
        ELSE LET Read(ex) == [neg |-> neg, dig |-> mt.dig,
                              ord |-> dp + ex.e * esign, n |-> ex.i - 1,
                              ok |-> TRUE]
             IN  Read(readExpDigits(s, i2, 0))

\* readFloat: the sign, then the mantissa, then the exponent
readFloat(s) ==
    LET signed == Len(s) > 0 /\ s[1] \in {"+", "-"}
        neg == Len(s) > 0 /\ s[1] = "-"
        i0 == IF signed THEN 2 ELSE 1
    IN  IF Len(s) = 0
        THEN [neg |-> FALSE, dig |-> <<>>, ord |-> 0, n |-> 0, ok |-> FALSE]
        ELSE readFloatExponent(s, neg, readMantissa(s, i0, FALSE, FALSE, <<>>, 0))

RECURSIVE StripTrailingZeros(_)
StripTrailingZeros(d) ==
    IF d # <<>> /\ d[Len(d)] = 0
    THEN StripTrailingZeros(SubSeq(d, 1, Len(d) - 1))
    ELSE d

\* 0.dig * 10^309 at or above this is beyond the largest float64 by half an
\* ulp or more and overflows
OverflowDigits == <<1, 7, 9, 7, 6, 9, 3, 1, 3, 4, 8, 6, 2, 3, 1, 5, 8, 0, 7, 9, 3>>

\* 0.dig * 10^-323 at or below this is at most half the smallest denormal and
\* rounds to zero
UnderflowDigits == <<2, 4, 7, 0, 3, 2, 8, 2, 2, 9, 2, 0, 6, 2, 3, 2, 7, 2, 0, 8>>

\* atof64 given what special and readFloat returned for s: [val, err]
atof64(s, sp, rf) ==
    LET Round(dig) ==
            IF dig = <<>>
                 \/ rf.ord < -323
                 \/ (rf.ord = -323 /\ ~LexLt(UnderflowDigits, dig))
            THEN [val |-> FZero(rf.neg), err |-> "nil"]
            ELSE IF rf.ord > 309 \/ (rf.ord = 309 /\ ~LexLt(dig, OverflowDigits))
            THEN [val |-> Inf(IF rf.neg THEN -1 ELSE 1), err |-> "ErrRange"]
            ELSE [val |-> Dec(rf.neg, dig, rf.ord), err |-> "nil"]
    IN  IF sp.ok
        THEN IF sp.n = Len(s)
             THEN [val |-> sp.val, err |-> "nil"]
             ELSE [val |-> FZero(FALSE), err |-> "ErrSyntax"]
        ELSE IF ~rf.ok \/ rf.n # Len(s)
        THEN [val |-> FZero(FALSE), err |-> "ErrSyntax"]
        ELSE Round(StripTrailingZeros(rf.dig))

\* ParseFloat(s, 64): [val, err]
ParseFloat(s) == atof64(s, special(s), readFloat(s))

---------------------------------------------------------------------------
(* Measure: a struct of one float64, amount, holding sentinel values *)

\* Sentinel value for Empty, which is nil-value
measureEmptySentinel == FZero(FALSE)

\* Sentinel value for Zero, must use IsNan because NaN != NaN
measureZeroSentinel == NaN

\* Sentinel value for Trace
measureTraceSentinel == Inf(-1)

measureSentinelizeKeepZero(amount) ==
    IF FLt(amount, FZero(FALSE)) THEN measureTraceSentinel ELSE amount

measureSentinelize(amount) ==
    IF FEq(amount, FZero(FALSE)) THEN measureZeroSentinel
    ELSE IF FLt(amount, FZero(FALSE)) THEN measureTraceSentinel
    ELSE amount

\* the zero value Measure{}
MeasureZeroValue == [amount |-> FZero(FALSE)]

NewMeasure(amount) == [amount |-> measureSentinelize(amount)]

NewEmptyMeasure == [amount |-> measureEmptySentinel]

NewTraceMeasure == [amount |-> measureTraceSentinel]

IsEmpty(mm) == FEq(mm.amount, measureEmptySentinel)

IsTrace(mm) == IsInf(mm.amount, -1)

IsZero(mm) == IsNaN(mm.amount)

IsValidPercentOpenAbove(mm) ==
    \/ IsZero(mm) \/ IsEmpty(mm) \/ IsTrace(mm)
    \/ (FGe(mm.amount, FZero(FALSE)) /\ FLt(mm.amount, Dec(FALSE, <<1>>, 3)))

\* IsValidPercent without the upper end of the range
IsValidPercentNoUpper(mm) ==
    IF IsZero(mm) \/ IsEmpty(mm) \/ IsTrace(mm) THEN TRUE
    ELSE FGe(mm.amount, FZero(FALSE))

IsValidPercent(mm) ==
    IF IsZero(mm) \/ IsEmpty(mm) \/ IsTrace(mm) THEN TRUE
    ELSE FGe(mm.amount, FZero(FALSE)) /\ FLe(mm.amount, Dec(FALSE, <<1>>, 3))

\* the end of FromString with a Trace receiver left as it is
setParsedKeepsTrace(mm, r) ==
    IF r.err # "nil"
    THEN [m |-> mm, err |-> r.err]
    ELSE IF IsTrace(mm) THEN [m |-> mm, err |-> "nil"]
    ELSE [m |-> [amount |-> measureSentinelize(r.val)], err |-> "nil"]

\* the end of FromString with the amount assigned before the error test
setParsedAssignsFirst(mm, r) ==
    IF r.err # "nil"
    THEN [m |-> [amount |-> r.val], err |-> r.err]
    ELSE [m |-> [amount |-> measureSentinelize(r.val)], err |-> "nil"]

\* the end of FromString, given r, what ParseFloat returned
setParsed(mm, r) ==
    IF r.err # "nil"
    THEN [m |-> mm, err |-> r.err]
    ELSE [m |-> [amount |-> measureSentinelize(r.val)], err |-> "nil"]

\* FromString with an error returned for a string that passes the error test
FromStringRejectsJunk(mm, str) ==
    IF IsEmptyMeasurement(str)
    THEN [m |-> [amount |-> measureEmptySentinel], err |-> "nil"]
    ELSE IF IsErrorMeasurement(str)
    THEN [m |-> mm, err |-> "ErrSyntax"]
    ELSE IF IsTraceMeasurement(str)
    THEN [m |-> [amount |-> measureTraceSentinel], err |-> "nil"]
    ELSE setParsed(mm, ParseFloat(
             TrimSuffix(TrimPrefix(TrimPrefix(str, <<",">>), <<">">>), <<"%">>)))

\* FromString without the removal of the trailing '%'
FromStringKeepPercent(mm, str) ==
    IF IsEmptyMeasurement(str)
    THEN [m |-> [amount |-> measureEmptySentinel], err |-> "nil"]
    ELSE IF IsErrorMeasurement(str)
    THEN [m |-> [amount |-> measureEmptySentinel], err |-> "nil"]
    ELSE IF IsTraceMeasurement(str)
    THEN [m |-> [amount |-> measureTraceSentinel], err |-> "nil"]
    ELSE setParsed(mm, ParseFloat(TrimPrefix(TrimPrefix(str, <<",">>), <<">">>)))

\* FromString with the trace test before the error test
FromStringTraceFirst(mm, str) ==
    IF IsEmptyMeasurement(str)
    THEN [m |-> [amount |-> measureEmptySentinel], err |-> "nil"]
    ELSE IF IsTraceMeasurement(str)
    THEN [m |-> [amount |-> measureTraceSentinel], err |-> "nil"]
    ELSE IF IsErrorMeasurement(str)
    THEN [m |-> [amount |-> measureEmptySentinel], err |-> "nil"]
    ELSE setParsed(mm, ParseFloat(
             TrimSuffix(TrimPrefix(TrimPrefix(str, <<",">>), <<">">>), <<"%">>)))

\* FromString on receiver mm: [m, err], m the receiver after the call
FromString(mm, str) ==
    IF IsEmptyMeasurement(str)
    THEN [m |-> [amount |-> measureEmptySentinel], err |-> "nil"]
    ELSE IF IsErrorMeasurement(str)
    THEN [m |-> [amount |-> measureEmptySentinel], err |-> "nil"]
    ELSE IF IsTraceMeasurement(str)
    THEN [m |-> [amount |-> measureTraceSentinel], err |-> "nil"]
    ELSE LET s1 == TrimPrefix(str, <<",">>)
             s2 == TrimPrefix(s1, <<">">>)
             s3 == TrimSuffix(s2, <<"%">>)
         IN  setParsed(mm, ParseFloat(s3))

---------------------------------------------------------------------------
(* encoding/json on the byte strings UnmarshalJSON is given; the character *)
(* universe has no backslash, so a string literal holds no escapes         *)

Quote == "\""

jsonSpace == {" ", "\t", "\n", "\r"}

RECURSIVE jsonTrimLeft(_)
jsonTrimLeft(b) ==
    IF b # <<>> /\ Head(b) \in jsonSpace THEN jsonTrimLeft(Tail(b)) ELSE b

RECURSIVE jsonTrimRight(_)
jsonTrimRight(b) ==
    IF b # <<>> /\ b[Len(b)] \in jsonSpace
    THEN jsonTrimRight(SubSeq(b, 1, Len(b) - 1))
    ELSE b

jsonTrim(b) == jsonTrimRight(jsonTrimLeft(b))

jsonNull == <<"n", "u", "l", "l">>

\* b is one JSON string literal
jsonIsString(b) ==
    /\ Len(b) >= 2
    /\ b[1] = Quote
    /\ b[Len(b)] = Quote
    /\ \A i \in 2..(Len(b) - 1) : b[i] \notin {Quote, "\t", "\n", "\r"}

RECURSIVE skipDigits(_, _)
skipDigits(b, i) ==
    IF i <= Len(b) /\ IsDigit(b[i]) THEN skipDigits(b, i + 1) ELSE i

\* b is one JSON number literal
jsonIsNumber(b) ==
    LET i0 == IF Len(b) >= 1 /\ b[1] = "-" THEN 2 ELSE 1
        intOk == i0 <= Len(b) /\ IsDigit(b[i0])
        i1 == IF intOk /\ b[i0] = "0" THEN i0 + 1 ELSE skipDigits(b, i0)
        hasFrac == i1 <= Len(b) /\ b[i1] = "."
        i2 == IF hasFrac THEN skipDigits(b, i1 + 1) ELSE i1
        fracOk == ~hasFrac \/ i2 > i1 + 1
        hasExp == i2 <= Len(b) /\ b[i2] \in {"e", "E"}
        i3 == IF hasExp /\ i2 + 1 <= Len(b) /\ b[i2 + 1] \in {"+", "-"}
              THEN i2 + 2 ELSE i2 + 1
        i4 == IF hasExp THEN skipDigits(b, i3) ELSE i2
        expOk == ~hasExp \/ i4 > i3
    IN  intOk /\ fracOk /\ expOk /\ i4 = Len(b) + 1

\* json.Unmarshal of the trimmed text t into a string: [ok, str]
jsonDecodeString(t) ==
    IF jsonIsString(t) THEN [ok |-> TRUE, str |-> SubSeq(t, 2, Len(t) - 1)]
    ELSE IF t = jsonNull THEN [ok |-> TRUE, str |-> <<>>]
    ELSE [ok |-> FALSE, str |-> <<>>]

\* json.Unmarshal(b, &str) with str == "": [ok, str]
jsonUnmarshalString(b) == jsonDecodeString(jsonTrim(b))

\* json.Unmarshal of the trimmed text t into a float64, given r, what
\* ParseFloat returns for t: [ok, val]
jsonDecodeFloat(t, r) ==
    IF jsonIsNumber(t) /\ r.err = "nil" THEN [ok |-> TRUE, val |-> r.val]
    ELSE IF t = jsonNull THEN [ok |-> TRUE, val |-> FZero(FALSE)]
    ELSE [ok |-> FALSE, val |-> FZero(FALSE)]

\* json.Unmarshal(b, &val) with val == 0: [ok, val]
jsonUnmarshalFloat(b) == jsonDecodeFloat(jsonTrim(b), ParseFloat(jsonTrim(b)))

unmarshalDecodedStringOnly(mm, js, jf) ==
    IF js.ok THEN FromString(mm, js.str)
    ELSE [m |-> mm, err |-> "UnmarshalError"]

\* UnmarshalJSON after the null test, given what the two json.Unmarshal
\* calls return
unmarshalDecoded(mm, js, jf) ==
    IF js.ok THEN FromString(mm, js.str)
    ELSE IF jf.ok
    THEN [m |-> [amount |-> measureSentinelize(jf.val)], err |-> "nil"]
    ELSE [m |-> mm, err |-> "UnmarshalError"]

\* UnmarshalJSON on receiver mm: [m, err]
UnmarshalJSON(mm, b) ==
    IF b = jsonNull
    THEN [m |-> [amount |-> measureEmptySentinel], err |-> "nil"]
    ELSE unmarshalDecoded(mm, jsonUnmarshalString(b), jsonUnmarshalFloat(b))

\* UnmarshalCSV on receiver mm: [m, err]
UnmarshalCSV(mm, value) ==
    IF value = <<>>
    THEN [m |-> [amount |-> measureEmptySentinel], err |-> "nil"]
    ELSE FromString(mm, value)

---------------------------------------------------------------------------
(* fmt.Sprintf("%f", x): sign, integer digits, a point and six fraction   *)
(* digits, rounded to nearest; "+Inf", "-Inf" and "NaN" for the specials.  *)
(* A decimal lying exactly half way between two six-digit values is       *)
(* rounded to even; no modelled input has seven fraction digits ending in *)
(* a lone 5.                                                               *)

\* digit p of 0.d1d2d3.., zero outside the stored digits
digitAt(d, p) == IF p >= 1 /\ p <= Len(d) THEN d[p] ELSE 0

\* the first n digits of 0.d1d2.. * 10^o, n = o + 6: the value in millionths,
\* truncated
scaledDigits(d, n) == IF n <= 0 THEN <<>> ELSE [i \in 1..n |-> digitAt(d, i)]

\* does the part cut off after digit n round the millionths up?
roundsUp(d, n) ==
    /\ n >= 0
    /\ \/ digitAt(d, n + 1) > 5
       \/ digitAt(d, n + 1) = 5 /\ Len(d) > n + 1
       \/ digitAt(d, n + 1) = 5 /\ Len(d) = n + 1 /\ digitAt(d, n) % 2 = 1

RECURSIVE incDigits(_)
\* the digit string plus one
incDigits(ds) ==
    IF ds = <<>> THEN <<1>>
    ELSE IF ds[Len(ds)] < 9 THEN [ds EXCEPT ![Len(ds)] = @ + 1]
    ELSE incDigits(SubSeq(ds, 1, Len(ds) - 1)) \o <<0>>

\* at least seven digits: one before the point, six after
padMillionths(ds) ==
    IF Len(ds) >= 7 THEN ds ELSE [i \in 1..(7 - Len(ds)) |-> 0] \o ds

digitChars(ds) == [i \in 1..Len(ds) |-> Digits[ds[i] + 1]]

\* the text of a number of millionths
pointSix(ms) ==
    digitChars(SubSeq(ms, 1, Len(ms) - 6)) \o <<".">>
        \o digitChars(SubSeq(ms, Len(ms) - 5, Len(ms)))

SprintfF(f) ==
    IF f.k = "nan" THEN <<"N", "a", "N">>
    ELSE IF f.k = "inf"
    THEN (IF f.neg THEN <<"-">> ELSE <<"+">>) \o <<"I", "n", "f">>
    ELSE (IF f.neg THEN <<"-">> ELSE <<>>)
         \o pointSix(padMillionths(
                IF roundsUp(f.dig, f.ord + 6)
                THEN incDigits(scaledDigits(f.dig, f.ord + 6))
                ELSE scaledDigits(f.dig, f.ord + 6)))

---------------------------------------------------------------------------
(* Measure: serialization *)

AmountRawOnTrace(mm) ==
    IF IsEmpty(mm) THEN [result |-> FZero(FALSE), trace |-> FALSE, empty |-> TRUE]
    ELSE IF IsZero(mm)
    THEN [result |-> FZero(FALSE), trace |-> FALSE, empty |-> FALSE]
    ELSE [result |-> mm.amount, trace |-> IsTrace(mm), empty |-> FALSE]

\* Amount returns the value, isTrace, isEmpty
Amount(mm) ==
    IF IsEmpty(mm) THEN [result |-> FZero(FALSE), trace |-> FALSE, empty |-> TRUE]
    ELSE IF IsZero(mm)
    THEN [result |-> FZero(FALSE), trace |-> FALSE, empty |-> FALSE]
    ELSE IF IsTrace(mm)
    THEN [result |-> FZero(FALSE), trace |-> TRUE, empty |-> FALSE]
    ELSE [result |-> mm.amount, trace |-> FALSE, empty |-> FALSE]

SQLNull == <<"N", "U", "L", "L">>

\* AsSQL converts the measure to "NULL" or "<amount>"
AsSQL(mm) ==
    IF IsEmpty(mm) \/ IsTrace(mm) THEN SQLNull
    ELSE IF IsZero(mm) THEN <<"0">>
    ELSE SprintfF(mm.amount)

\* AsCSV converts the measure to "" or "<amount>"
AsCSV(mm) ==
    IF IsEmpty(mm) \/ IsTrace(mm) THEN <<>>
    ELSE IF IsZero(mm) THEN <<"0">>
    ELSE SprintfF(mm.amount)

JSONTraceMarker == <<Quote, "<", "0", ".", "0", "1", Quote>>

\* MarshalJSON converts the measure to JSON
MarshalJSON(mm) ==
    IF IsEmpty(mm) THEN jsonNull
    ELSE IF IsZero(mm) THEN <<"0">>
    ELSE IF IsTrace(mm) THEN JSONTraceMarker
    ELSE SprintfF(mm.amount)

\* Value implements driver.Valuer: nil, the int 0 or the float64 amount
Value(mm) ==
    IF IsTrace(mm) \/ IsEmpty(mm) THEN [type |-> "nil"]
    ELSE IF IsZero(mm) THEN [type |-> "int", int |-> 0]
    ELSE [type |-> "float64", float |-> mm.amount]

\* MarshalCSV marshals the measure to a CSV string
MarshalCSV(mm) == AsCSV(mm)

---------------------------------------------------------------------------
(* Inputs *)

\* the characters of the enumerated input strings
Alphabet == {".", "-", "+", "<", ">", ",", "%", "0", "1", "5", "a", "e", " "}

\* the field values named by the documentation and the edge cases of the
\* parse, longer than the enumerated strings
ProbeStrings ==
    {<<"T", "R", "C">>,
     <<"<", "L", "O", "Q">>,
     <<"<", "0", ".", "1">>,
     <<"0", ".", "5", "L", "O", "Q">>,
     <<"L", "O", "Q">>,
     <<"<", "1", ",", "5">>,
     <<"<", "L", "O", "Q", "(", "a", ")">>,
     <<"-", "-", "x">>,
     <<"-", "-", "<">>,
     <<"1", ".", "1", ".">>,
     <<"1", ",", "2">>,
     <<"a", "1", ".", "0">>,
     <<"0", "<", "0", ".", "1", "0">>,
     <<"t", "e", "r", "p", "i", "n", "o", "l", "e", "n", "e", ":", " ", "1", ".", "2", "2", "%">>,
     <<"a", "-", "O", "c", "i", "m", "e", "n", "e", ":", " ", "1", ".", "0", "8">>,
     <<"n", "o", "t", "a", "n", "u", "m", "b", "e", "r">>,
     <<"1", "z">>,
     <<"5", "-", "5">>,
     <<"4", "5", ".", "3">>,
     <<"4", "5", ".", "3", "%">>,
     <<">", "1", "0", "0">>,
     <<",", "5">>,
     <<">", "5", "%">>,
     <<"5", "%", "%">>,
     <<">", ">", "5">>,
     <<"1", "0", "0">>,
     <<"1", "0", "0", ".", "5">>,
     <<"1", "5", "0">>,
     <<"9", "0", "3", "8", "5">>,
     <<"-", "5">>,
     <<"9", "9", ".", "9">>,
     <<"0", ".", "0", "0", "0", "0", "0", "0", "1">>,
     <<"1", "e", "5">>,
     <<"1", "e", "9", "9", "9">>,
     <<"1", "e", "-", "4", "0", "0">>,
     <<"+", "I", "n", "f">>,
     <<"-", "I", "n", "f">>,
     <<">", "N", "a", "N">>,
     <<" ", "T", "R", "C">>,
     <<"4", "5", ".", "3", " ">>}

Strings == UNION {[1..n -> Alphabet] : n \in 0..MaxLen} \cup ProbeStrings

\* byte strings given to UnmarshalJSON: raw text (numbers and junk), the
\* same text as a JSON string literal, and null
JSONInputs ==
    Strings \cup {<<Quote>> \o s \o <<Quote>> : s \in Strings} \cup {jsonNull}

\* amounts given to NewMeasure
AmountInputs ==
    {NaN, Inf(1), Inf(-1), FZero(FALSE), FZero(TRUE),
     Dec(TRUE, <<5>>, 1), Dec(TRUE, <<1>>, -6),
     Dec(FALSE, <<1>>, -6), Dec(FALSE, <<5>>, 1), Dec(FALSE, <<4, 5, 3>>, 2),
     Dec(FALSE, <<1>>, 3), Dec(FALSE, <<1, 0, 0, 0, 0, 0, 0, 0, 1>>, 3),
     Dec(FALSE, <<1, 5>>, 3), Dec(FALSE, <<9, 0, 3, 8, 5>>, 5)}

---------------------------------------------------------------------------
(* State: one Measure variable of a caller and the caller's last call *)

VARIABLES
    m,       \* the Measure
    prev,    \* the Measure before the last call
    pc,      \* "ready": between calls; "done": a call has returned
    op,      \* the last call
    argStr,  \* its string or byte-string argument
    argAmt,  \* its float64 argument
    err      \* the error it returned, "nil" for none

measureVars == <<m, prev, pc, op, argStr, argAmt, err>>

\* State of one call of a process<Dataset> function of the command (the
\* second specification, SpecRun); at rest while Measure calls are explored
VARIABLES
    dataset,    \* the dataset the call processes
    noFetch,    \* the --no-fetch flag
    compress,   \* the --compress flag
    cache,      \* the dataset's cache file: [state, parses]
    upstream,   \* the records the data source holds
    rpc,        \* the position of the call
    records,    \* the call's slice of records
    cleanLog,   \* the counts of the "Cleaned brands" log line
    files,      \* the files in the output directory
    outFiles,   \* the call's result slice, files
    apiCalled,  \* has the API been requested
    perr,       \* the error the call returns, "nil" for none
    dbRows      \* the records inserted into the database

runVars ==
    <<dataset, noFetch, compress, cache, upstream, rpc, records, cleanLog,
      files, outFiles, apiCalled, perr, dbRows>>

\* State of one call of sources.FetchSocrata (the third specification,
\* SpecFetch); at rest otherwise
VARIABLES
    fpc,          \* the position of the call
    cfg,          \* the SocrataConfig: [BatchSize, urlOK]
    serverN,      \* the server holds the records 1 .. serverN
    fcache,       \* the cache file: [state, parses, content]
    offset,       \* the local offset
    requests,     \* the requests issued: [limit, offset]
    batches,      \* the batches received
    allItems,     \* the local allItems
    fresult,      \* the records the call returns
    ferr,         \* the error the call returns, "nil" for none
    cacheWrites   \* how often the cache file has been opened for writing

fetchVars ==
    <<fpc, cfg, serverN, fcache, offset, requests, batches, allItems,
      fresult, ferr, cacheWrites>>

\* State of one run of main over the selected datasets (the fourth
\* specification, SpecMain); at rest otherwise
VARIABLES
    mpc,          \* the position of main: the dataset it is at, "db", "done"
                  \* or "fatal" (log.Fatalf)
    datasetSet,   \* the selected datasets
    mcompress,    \* the --compress flag
    processed,    \* the datasets whose process function was called, in order
    logged,       \* the errors logged: [dataset, err]
    outputFiles   \* the local outputFiles

mainVars == <<mpc, datasetSet, mcompress, processed, logged, outputFiles>>

\* State of the tables ct_credentials and ct_weekly_sales under calls of
\* DBInsertCredentials and DBInsertWeeklySales (the fifth specification,
\* SpecDB); at rest otherwise
VARIABLES
    tables,       \* the rows of each table
    before,       \* the rows of each table before the last call
    dbCall        \* the last call: [fn, arg, err]

dbVars == <<tables, before, dbCall>>

\* the variables the Measure calls leave alone
nonMeasureVars == <<runVars, fetchVars, mainVars, dbVars>>

\* the variables a process<Dataset> call leaves alone
nonRunVars == <<measureVars, fetchVars, mainVars, dbVars>>

\* the variables a FetchSocrata call leaves alone
nonFetchVars == <<measureVars, runVars, mainVars, dbVars>>

\* the variables main leaves alone
nonMainVars == <<measureVars, runVars, fetchVars, dbVars>>

\* the variables the inserts leave alone
nonDBVars == <<measureVars, runVars, fetchVars, mainVars>>

vars == <<measureVars, runVars, fetchVars, mainVars, dbVars>>

\* main is not running
MainOff ==
    /\ mpc = "off"
    /\ datasetSet = {}
    /\ mcompress = FALSE
    /\ processed = <<>>
    /\ logged = <<>>
    /\ outputFiles = <<>>

\* the tables as the migration creates them, no insert called
DBOff ==
    /\ tables = [ct_credentials |-> {}, ct_weekly_sales |-> {}]
    /\ before = tables
    /\ dbCall = [fn |-> "none", arg |-> <<>>, err |-> "nil"]

\* no call of FetchSocrata is under way
FetchOff ==
    /\ fpc = "off"
    /\ cfg = [BatchSize |-> 0, urlOK |-> TRUE]
    /\ serverN = 0
    /\ fcache = [state |-> "missing", parses |-> FALSE, content |-> <<>>]
    /\ offset = 0
    /\ requests = <<>>
    /\ batches = <<>>
    /\ allItems = <<>>
    /\ fresult = <<>>
    /\ ferr = "nil"
    /\ cacheWrites = 0

\* no call of a process function is under way
RunOff ==
    /\ dataset = "none"
    /\ noFetch = FALSE
    /\ compress = FALSE
    /\ cache = [state |-> "missing", parses |-> FALSE]
    /\ upstream = <<>>
    /\ rpc = "off"
    /\ records = <<>>
    /\ cleanLog = <<>>
    /\ files = {}
    /\ outFiles = <<>>
    /\ apiCalled = FALSE
    /\ perr = "nil"
    /\ dbRows = <<>>

\* var m Measure, no call made yet
MeasureInit ==
    /\ m = MeasureZeroValue
    /\ prev = MeasureZeroValue
    /\ pc = "ready"
    /\ op = "none"
    /\ argStr = <<>>
    /\ argAmt = FZero(FALSE)
    /\ err = "nil"

Init == MeasureInit /\ RunOff /\ FetchOff /\ MainOff /\ DBOff

\* m = NewMeasure(a)
CallNewMeasure ==
    /\ pc = "ready"
    /\ \E a \in AmountInputs :
        /\ m' = NewMeasure(a)
        /\ argAmt' = a
    /\ prev' = m
    /\ op' = "NewMeasure"
    /\ argStr' = <<>>
    /\ err' = "nil"
    /\ pc' = "done"
    /\ UNCHANGED nonMeasureVars

\* m = NewEmptyMeasure()
CallNewEmptyMeasure ==
    /\ pc = "ready"
    /\ m' = NewEmptyMeasure
    /\ prev' = m
    /\ op' = "NewEmptyMeasure"
    /\ argStr' = <<>>
    /\ argAmt' = FZero(FALSE)
    /\ err' = "nil"
    /\ pc' = "done"
    /\ UNCHANGED nonMeasureVars

\* m = NewTraceMeasure()
CallNewTraceMeasure ==
    /\ pc = "ready"
    /\ m' = NewTraceMeasure
    /\ prev' = m
    /\ op' = "NewTraceMeasure"
    /\ argStr' = <<>>
    /\ argAmt' = FZero(FALSE)
    /\ err' = "nil"
    /\ pc' = "done"
    /\ UNCHANGED nonMeasureVars

\* err = m.FromString(s)
CallFromString ==
    /\ pc = "ready"
    /\ \E s \in Strings :
        \E r \in {FromString(m, s)} :
            /\ m' = r.m
            /\ err' = r.err
            /\ argStr' = s
    /\ prev' = m
    /\ op' = "FromString"
    /\ argAmt' = FZero(FALSE)
    /\ pc' = "done"
    /\ UNCHANGED nonMeasureVars

\* err = m.FromString(m.AsSQL()): the relational literal of the measure is
\* parsed back
CallFromStringOfSQL ==
    /\ pc = "ready"
    /\ \E r \in {FromString(m, AsSQL(m))} :
        /\ m' = r.m
        /\ err' = r.err
    /\ argStr' = AsSQL(m)
    /\ prev' = m
    /\ op' = "FromString"
    /\ argAmt' = FZero(FALSE)
    /\ pc' = "done"
    /\ UNCHANGED nonMeasureVars

\* err = m.UnmarshalJSON(b)
CallUnmarshalJSON ==
    /\ pc = "ready"
    /\ \E b \in JSONInputs :
        \E r \in {UnmarshalJSON(m, b)} :
            /\ m' = r.m
            /\ err' = r.err
            /\ argStr' = b
    /\ prev' = m
    /\ op' = "UnmarshalJSON"
    /\ argAmt' = FZero(FALSE)
    /\ pc' = "done"
    /\ UNCHANGED nonMeasureVars

\* b, _ := m.MarshalJSON(); err = m.UnmarshalJSON(b): the JSON form of the
\* measure is decoded back
CallUnmarshalJSONOfMarshal ==
    /\ pc = "ready"
    /\ \E r \in {UnmarshalJSON(m, MarshalJSON(m))} :
        /\ m' = r.m
        /\ err' = r.err
    /\ argStr' = MarshalJSON(m)
    /\ prev' = m
    /\ op' = "UnmarshalJSON"
    /\ argAmt' = FZero(FALSE)
    /\ pc' = "done"
    /\ UNCHANGED nonMeasureVars

\* err = m.UnmarshalCSV(value)
CallUnmarshalCSV ==
    /\ pc = "ready"
    /\ \E s \in Strings :
        \E r \in {UnmarshalCSV(m, s)} :
            /\ m' = r.m
            /\ err' = r.err
            /\ argStr' = s
    /\ prev' = m
    /\ op' = "UnmarshalCSV"
    /\ argAmt' = FZero(FALSE)
    /\ pc' = "done"
    /\ UNCHANGED nonMeasureVars

\* the caller goes on to its next call with the Measure as it is
Return ==
    /\ pc = "done"
    /\ pc' = "ready"
    /\ m' = m
    /\ prev' = m
    /\ op' = "none"
    /\ argStr' = <<>>
    /\ argAmt' = FZero(FALSE)
    /\ err' = "nil"
    /\ UNCHANGED nonMeasureVars

Next ==
    \/ CallNewMeasure
    \/ CallNewEmptyMeasure
    \/ CallNewTraceMeasure
    \/ CallFromString
    \/ CallFromStringOfSQL
    \/ CallUnmarshalJSON
    \/ CallUnmarshalJSONOfMarshal
    \/ CallUnmarshalCSV
    \/ Return

Spec == Init /\ [][Next]_vars

---------------------------------------------------------------------------
(* One call of a process<Dataset> function of the command (main.go):      *)
(* load the records, from the cache alone under --no-fetch, clean them    *)
(* (brands), write and optionally compress the CSV and JSON exports, and  *)
(* insert into the database (brands).  A raw record is the tuple of its   *)
(* designated percentage fields, as strings.                               *)

MaxRecords == 5

Datasets == {"brands", "credentials", "applications", "sales", "tax"}

\* raw records: valid fields; one field out of range; one field that fails
\* to parse
RecordOK == <<<<"4", "5", ".", "3">>, <<"<", "0", ".", "1">>>>

RecordOutOfRange == <<<<"4", "5", ".", "3">>, <<"9", "0", "3", "8", "5">>>>

RecordUnparsable == <<<<"5", "-", "5">>, <<"1", "0", "0">>>>

RecordValues == {RecordOK, RecordOutOfRange, RecordUnparsable}

RecordSeqs == UNION {[1..n -> RecordValues] : n \in 0..MaxRecords}

\* what a data source can hold; only brands records are cleaned, so the other
\* datasets are explored with at most one record
SourceRecords(d) ==
    IF d = "brands" THEN RecordSeqs ELSE {s \in RecordSeqs : Len(s) <= 1}

\* a cache file: missing, or present and younger ("fresh") or older ("stale")
\* than --max-cache-age; a present file parses or not
CacheStates ==
    {[state |-> "missing", parses |-> FALSE]}
        \cup [state : {"fresh", "stale"}, parses : BOOLEAN]

\* sources.CheckCacheFile(filename, maxAge) succeeds; maxAge is "0", no age
\* limit, or "maxCacheAge", the flag
CheckCacheFile(c, maxAge) ==
    /\ c.state # "missing"
    /\ (maxAge = "0" \/ c.state = "fresh")

\* a parsed field is without error and a valid percentage
parsedValid(r) == r.err = "nil" /\ IsValidPercent(r.m)

\* a designated field of a record is percent-valid
FieldValid(f) == parsedValid(FromString(MeasureZeroValue, f))

RecordValid(rec) == \A i \in DOMAIN rec : FieldValid(rec[i])

\* ct.CleanBrands(brands)
CleanBrands(brands) == SelectSeq(brands, RecordValid)

\* the position after the load
AfterLoad == IF dataset = "brands" THEN "clean" ELSE "csv"

\* the position after the JSON export
AfterJSON == IF dataset = "brands" THEN "db" ELSE "returned"

\* return nil, fmt.Errorf(e)
ReturnError(e) ==
    /\ perr' = e
    /\ outFiles' = <<>>
    /\ rpc' = "returned"

InitRun ==
    /\ MeasureInit
    /\ FetchOff
    /\ MainOff
    /\ DBOff
    /\ dataset \in Datasets
    /\ noFetch \in BOOLEAN
    /\ compress \in BOOLEAN
    /\ cache \in CacheStates
    /\ upstream \in SourceRecords(dataset)
    /\ rpc = "start"
    /\ records = <<>>
    /\ cleanLog = <<>>
    /\ files = {}
    /\ outFiles = <<>>
    /\ apiCalled = FALSE
    /\ perr = "nil"
    /\ dbRows = <<>>

\* under --no-fetch a cache failure is answered by a request to the API
LoadFromCacheOrFetch ==
    /\ rpc = "start"
    /\ noFetch
    /\ IF CheckCacheFile(cache, "0") /\ cache.parses
       THEN /\ records' = upstream
            /\ rpc' = AfterLoad
            /\ UNCHANGED <<perr, outFiles, apiCalled>>
       ELSE /\ apiCalled' = TRUE
            /\ records' = upstream
            /\ rpc' = AfterLoad
            /\ UNCHANGED <<perr, outFiles>>
    /\ UNCHANGED <<dataset, noFetch, compress, cache, upstream, cleanLog,
                   files, dbRows, nonRunVars>>

\* if noFetch { sources.CheckCacheFile(..., 0); json.Unmarshal(cacheBytes, ..) }
LoadFromCache ==
    /\ rpc = "start"
    /\ noFetch
    /\ IF ~CheckCacheFile(cache, "0")
       THEN ReturnError("failed to load cache") /\ UNCHANGED records
       ELSE IF ~cache.parses
       THEN ReturnError("failed to parse cached data") /\ UNCHANGED records
       ELSE /\ records' = upstream
            /\ rpc' = AfterLoad
            /\ UNCHANGED <<perr, outFiles>>
    /\ UNCHANGED <<dataset, noFetch, compress, cache, upstream, cleanLog,
                   files, apiCalled, dbRows, nonRunVars>>

\* else { ct.Fetch<Dataset>(appToken, maxCacheAge) }: the cache when it is
\* young enough and parses, else the API, whose result is cached
FetchDataset ==
    /\ rpc = "start"
    /\ ~noFetch
    /\ IF CheckCacheFile(cache, "maxCacheAge") /\ cache.parses
       THEN /\ records' = upstream
            /\ rpc' = AfterLoad
            /\ UNCHANGED <<perr, outFiles, apiCalled, cache>>
       ELSE /\ apiCalled' = TRUE
            /\ \/ /\ ReturnError("failed to fetch")
                  /\ UNCHANGED <<records, cache>>
               \/ /\ records' = upstream
                  /\ rpc' = AfterLoad
                  /\ \E written \in BOOLEAN :
                        cache' = IF written
                                 THEN [state |-> "fresh", parses |-> TRUE]
                                 ELSE cache
                  /\ UNCHANGED <<perr, outFiles>>
    /\ UNCHANGED <<dataset, noFetch, compress, upstream, cleanLog, files,
                   dbRows, nonRunVars>>

\* originalCount := len(brands); brands = ct.CleanBrands(brands); log.Printf
CleanStep ==
    /\ rpc = "clean"
    /\ records' = CleanBrands(records)
    /\ cleanLog' = <<Len(records), Len(records'), Len(records) - Len(records')>>
    /\ rpc' = "csv"
    /\ UNCHANGED <<dataset, noFetch, compress, cache, upstream, files,
                   outFiles, apiCalled, perr, dbRows, nonRunVars>>

\* ct.Write<Dataset>CSV(csvFile, records): os.Create fails, or the file is
\* written
WriteCSV ==
    /\ rpc = "csv"
    /\ \/ /\ ReturnError("failed to write CSV")
          /\ UNCHANGED files
       \/ /\ files' = files \cup {<<dataset, "csv">>}
          /\ rpc' = IF compress THEN "csvz" ELSE "json"
          /\ outFiles' = IF compress THEN outFiles
                         ELSE Append(outFiles, <<dataset, "csv">>)
          /\ UNCHANGED perr
    /\ UNCHANGED <<dataset, noFetch, compress, cache, upstream, records,
                   cleanLog, apiCalled, dbRows, nonRunVars>>

\* compressFile(name) fails before the .zst file exists, fails after
\* creating it, or succeeds and the plain file is removed
CompressOutcome(ext, next, failure) ==
    \/ /\ ReturnError(failure)
       /\ \E created \in BOOLEAN :
            files' = IF created THEN files \cup {<<dataset, ext \o ".zst">>}
                     ELSE files
    \/ /\ files' = (files \cup {<<dataset, ext \o ".zst">>}) \ {<<dataset, ext>>}
       /\ outFiles' = Append(outFiles, <<dataset, ext \o ".zst">>)
       /\ rpc' = next
       /\ UNCHANGED perr

\* if compress { compressFile(csvFile); os.Remove(csvFile) }
CompressCSV ==
    /\ rpc = "csvz"
    /\ CompressOutcome("csv", "json", "failed to compress CSV")
    /\ UNCHANGED <<dataset, noFetch, compress, cache, upstream, records,
                   cleanLog, apiCalled, dbRows, nonRunVars>>

\* ct.Write<Dataset>JSON(jsonFile, records): os.Create fails, the encoder
\* fails on the created file, or the file is written
WriteJSON ==
    /\ rpc = "json"
    /\ \/ /\ ReturnError("failed to write JSON")
          /\ \E created \in BOOLEAN :
                files' = IF created THEN files \cup {<<dataset, "json">>}
                         ELSE files
       \/ /\ files' = files \cup {<<dataset, "json">>}
          /\ rpc' = IF compress THEN "jsonz" ELSE AfterJSON
          /\ outFiles' = IF compress THEN outFiles
                         ELSE Append(outFiles, <<dataset, "json">>)
          /\ UNCHANGED perr
    /\ UNCHANGED <<dataset, noFetch, compress, cache, upstream, records,
                   cleanLog, apiCalled, dbRows, nonRunVars>>

\* if compress { compressFile(jsonFile); os.Remove(jsonFile) }
CompressJSON ==
    /\ rpc = "jsonz"
    /\ CompressOutcome("json", AfterJSON, "failed to compress JSON")
    /\ UNCHANGED <<dataset, noFetch, compress, cache, upstream, records,
                   cleanLog, apiCalled, dbRows, nonRunVars>>

\* ct.DBInsertBrands(conn, brands); return files, nil
InsertBrands ==
    /\ rpc = "db"
    /\ \/ /\ ReturnError("failed to insert brands")
          /\ UNCHANGED dbRows
       \/ /\ dbRows' = records
          /\ rpc' = "returned"
          /\ UNCHANGED <<perr, outFiles>>
    /\ UNCHANGED <<dataset, noFetch, compress, cache, upstream, records,
                   cleanLog, files, apiCalled, nonRunVars>>

NextRun ==
    \/ LoadFromCache
    \/ FetchDataset
    \/ CleanStep
    \/ WriteCSV
    \/ CompressCSV
    \/ WriteJSON
    \/ CompressJSON
    \/ InsertBrands

SpecRun == InitRun /\ [][NextRun]_vars

---------------------------------------------------------------------------
(* One call of sources.FetchSocrata: check the cache, request the pages   *)
(* one after another, cache the combined result.  The server holds the    *)
(* records 1 .. serverN and answers a request for (limit, offset) with    *)
(* the records offset+1 .. offset+limit it holds, or fails.                *)

MaxServer == 4

MaxBatch == 2

\* batchSize = 5000 when cfg.BatchSize == 0
DefaultBatchSize == 5000

\* the records 1 .. n
Ids(n) == [i \in 1..n |-> i]

\* the batch size of the call
batchSize == IF cfg.BatchSize = 0 THEN DefaultBatchSize ELSE cfg.BatchSize

\* the page a consistent server returns
ServerPage(limit, off) ==
    IF serverN <= off THEN <<>>
    ELSE [i \in 1..(IF serverN - off < limit THEN serverN - off ELSE limit)
             |-> off + i]

\* cache files: missing, or fresh or stale, unparsable or holding records
FetchCacheStates ==
    {[state |-> "missing", parses |-> FALSE, content |-> <<>>]}
        \cup [state : {"fresh", "stale"}, parses : {FALSE}, content : {<<>>}]
        \cup [state : {"fresh", "stale"}, parses : {TRUE},
              content : {Ids(n) : n \in 0..MaxServer}]

\* the ways one page can fail
PageFailures ==
    {"HTTP request failed", "HTTP status", "failed to read response",
     "failed to unmarshal result"}

InitFetch ==
    /\ MeasureInit
    /\ RunOff
    /\ MainOff
    /\ DBOff
    /\ fpc = "start"
    /\ cfg \in [BatchSize : 0..MaxBatch, urlOK : BOOLEAN]
    /\ serverN \in 0..MaxServer
    /\ fcache \in FetchCacheStates
    /\ offset = 0
    /\ requests = <<>>
    /\ batches = <<>>
    /\ allItems = <<>>
    /\ fresult = <<>>
    /\ ferr = "nil"
    /\ cacheWrites = 0

\* CheckCache returning an error when the cache file cannot be read
CheckCacheFailsWithoutCache ==
    /\ fpc = "start"
    /\ IF CheckCacheFile(fcache, "maxCacheAge") /\ fcache.parses
       THEN /\ fresult' = fcache.content
            /\ fpc' = "returned"
            /\ UNCHANGED ferr
       ELSE IF ~cfg.urlOK \/ ~CheckCacheFile(fcache, "maxCacheAge")
       THEN /\ ferr' = "failed to parse URL"
            /\ fpc' = "returned"
            /\ UNCHANGED fresult
       ELSE /\ fpc' = "page"
            /\ UNCHANGED <<fresult, ferr>>
    /\ UNCHANGED <<cfg, serverN, fcache, offset, requests, batches, allItems,
                   cacheWrites, nonFetchVars>>

\* Check cache first; then parse the base URL
CheckCache ==
    /\ fpc = "start"
    /\ IF CheckCacheFile(fcache, "maxCacheAge") /\ fcache.parses
       THEN /\ fresult' = fcache.content
            /\ fpc' = "returned"
            /\ UNCHANGED ferr
       ELSE IF ~cfg.urlOK
       THEN /\ ferr' = "failed to parse URL"
            /\ fpc' = "returned"
            /\ UNCHANGED fresult
       ELSE /\ fpc' = "page"
            /\ UNCHANGED <<fresult, ferr>>
    /\ UNCHANGED <<cfg, serverN, fcache, offset, requests, batches, allItems,
                   cacheWrites, nonFetchVars>>

\* RequestPage without the advance of the offset
RequestPageSameOffset ==
    /\ fpc = "page"
    /\ Len(requests) < MaxServer + 3
    /\ \/ /\ ferr' = "failed to create request"
          /\ fpc' = "returned"
          /\ UNCHANGED <<requests, fresult, batches, allItems, offset>>
       \/ /\ requests' = Append(requests,
                                [limit |-> batchSize, offset |-> offset])
          /\ \E f \in PageFailures : ferr' = f
          /\ fpc' = "returned"
          /\ UNCHANGED <<fresult, batches, allItems, offset>>
       \/ /\ requests' = Append(requests,
                                [limit |-> batchSize, offset |-> offset])
          /\ \E batch \in {ServerPage(batchSize, offset)} :
              /\ batches' = Append(batches, batch)
              /\ allItems' = allItems \o batch
              /\ fpc' = IF Len(batch) < batchSize THEN "cache" ELSE "page"
          /\ UNCHANGED <<fresult, ferr, offset>>
    /\ UNCHANGED <<cfg, serverN, fcache, cacheWrites, nonFetchVars>>

\* RequestPage leaving the loop after the first batch
RequestPageOnePage ==
    /\ fpc = "page"
    /\ Len(requests) < MaxServer + 3
    /\ \/ /\ ferr' = "failed to create request"
          /\ fpc' = "returned"
          /\ UNCHANGED <<requests, fresult, batches, allItems, offset>>
       \/ /\ requests' = Append(requests,
                                [limit |-> batchSize, offset |-> offset])
          /\ \E f \in PageFailures : ferr' = f
          /\ fpc' = "returned"
          /\ UNCHANGED <<fresult, batches, allItems, offset>>
       \/ /\ requests' = Append(requests,
                                [limit |-> batchSize, offset |-> offset])
          /\ \E batch \in {ServerPage(batchSize, offset)} :
              /\ batches' = Append(batches, batch)
              /\ allItems' = allItems \o batch
              /\ fpc' = "cache"
              /\ UNCHANGED offset
          /\ UNCHANGED <<fresult, ferr>>
    /\ UNCHANGED <<cfg, serverN, fcache, cacheWrites, nonFetchVars>>

\* RequestPage returning the pages already fetched with the error
RequestPageKeepsPages ==
    /\ fpc = "page"
    /\ Len(requests) < MaxServer + 3
    /\ \/ /\ ferr' = "failed to create request"
          /\ fpc' = "returned"
          /\ UNCHANGED <<requests, fresult, batches, allItems, offset>>
       \/ /\ requests' = Append(requests,
                                [limit |-> batchSize, offset |-> offset])
          /\ \E f \in PageFailures : ferr' = f
          /\ fpc' = "returned"
          /\ fresult' = allItems
          /\ UNCHANGED <<batches, allItems, offset>>
       \/ /\ requests' = Append(requests,
                                [limit |-> batchSize, offset |-> offset])
          /\ \E batch \in {ServerPage(batchSize, offset)} :
              /\ batches' = Append(batches, batch)
              /\ allItems' = allItems \o batch
              /\ IF Len(batch) < batchSize
                 THEN fpc' = "cache" /\ UNCHANGED offset
                 ELSE fpc' = "page" /\ offset' = offset + batchSize
          /\ UNCHANGED <<fresult, ferr>>
    /\ UNCHANGED <<cfg, serverN, fcache, cacheWrites, nonFetchVars>>

\* one turn of the pagination loop: the request with $limit and $offset, its
\* failures, the batch appended, the test len(batch) < batchSize
RequestPage ==
    /\ fpc = "page"
    /\ Len(requests) < MaxServer + 3
    /\ \/ /\ ferr' = "failed to create request"
          /\ fpc' = "returned"
          /\ UNCHANGED <<requests, fresult, batches, allItems, offset>>
       \/ /\ requests' = Append(requests,
                                [limit |-> batchSize, offset |-> offset])
          /\ \E f \in PageFailures : ferr' = f
          /\ fpc' = "returned"
          /\ UNCHANGED <<fresult, batches, allItems, offset>>
       \/ /\ requests' = Append(requests,
                                [limit |-> batchSize, offset |-> offset])
          /\ \E batch \in {ServerPage(batchSize, offset)} :
              /\ batches' = Append(batches, batch)
              /\ allItems' = allItems \o batch
              /\ IF Len(batch) < batchSize
                 THEN fpc' = "cache" /\ UNCHANGED offset
                 ELSE fpc' = "page" /\ offset' = offset + batchSize
          /\ UNCHANGED <<fresult, ferr>>
    /\ UNCHANGED <<cfg, serverN, fcache, cacheWrites, nonFetchVars>>

\* Cache the combined result and return it: MakeCacheFile fails, or the file
\* is created and left without the full text (json.Marshal fails, the error
\* of Write is dropped), or the file is written
WriteCache ==
    /\ fpc = "cache"
    /\ \/ UNCHANGED <<fcache, cacheWrites>>
       \/ /\ cacheWrites' = cacheWrites + 1
          /\ \/ fcache' = [state |-> "fresh", parses |-> FALSE,
                           content |-> <<>>]
             \/ fcache' = [state |-> "fresh", parses |-> TRUE,
                           content |-> allItems]
    /\ fresult' = allItems
    /\ fpc' = "returned"
    /\ UNCHANGED <<cfg, serverN, offset, requests, batches, allItems, ferr,
                   nonFetchVars>>

NextFetch ==
    \/ CheckCache
    \/ RequestPage
    \/ WriteCache

SpecFetch == InitFetch /\ [][NextFetch]_vars

\* SpecFetch with the call running on: the caller is blocked in the call, and
\* each request is answered, by a page or by a failure
SpecFetchLive == SpecFetch /\ WF_vars(NextFetch)

---------------------------------------------------------------------------
(* main: the selected datasets one after another, then the DuckDB file *)

\* availableDatasets, in the order main tests them
DatasetOrder == <<"brands", "credentials", "applications", "sales", "tax">>

\* the errors a process function returns
ProcessErrors ==
    {"failed to load cache", "failed to parse cached data", "failed to fetch",
     "failed to write CSV", "failed to compress CSV", "failed to write JSON",
     "failed to compress JSON"}

\* the files a process function returns without error
ProcessFiles(d, c) ==
    IF c THEN <<<<d, "csv.zst">>, <<d, "json.zst">>>>
    ELSE <<<<d, "csv">>, <<d, "json">>>>

\* the position after the i-th dataset
AfterDataset(i) == IF i < Len(DatasetOrder) THEN DatasetOrder[i + 1] ELSE "db"

InitMain ==
    /\ MeasureInit
    /\ RunOff
    /\ FetchOff
    /\ DBOff
    /\ mpc = DatasetOrder[1]
    /\ datasetSet \in SUBSET Datasets
    /\ mcompress \in BOOLEAN
    /\ processed = <<>>
    /\ logged = <<>>
    /\ outputFiles = <<>>

\* MainDataset where an error ends the run
MainDatasetStopsOnError(i) ==
    /\ mpc = DatasetOrder[i]
    /\ IF DatasetOrder[i] \in datasetSet
       THEN /\ processed' = Append(processed, DatasetOrder[i])
            /\ \/ /\ \E e \in ProcessErrors \cup
                         (IF i = 1 THEN {"failed to insert brands"} ELSE {}) :
                         logged' = Append(logged,
                                     [dataset |-> DatasetOrder[i], err |-> e])
                  /\ mpc' = "db"
                  /\ UNCHANGED outputFiles
               \/ /\ outputFiles' =
                         outputFiles \o ProcessFiles(DatasetOrder[i], mcompress)
                  /\ mpc' = AfterDataset(i)
                  /\ UNCHANGED logged
       ELSE /\ mpc' = AfterDataset(i)
            /\ UNCHANGED <<processed, logged, outputFiles>>
    /\ UNCHANGED <<datasetSet, mcompress, nonMainVars>>

\* if datasetSet[d] { files, err := process<d>(...); log the error or append
\* the files }
MainDataset(i) ==
    /\ mpc = DatasetOrder[i]
    /\ IF DatasetOrder[i] \in datasetSet
       THEN /\ processed' = Append(processed, DatasetOrder[i])
            /\ \/ /\ \E e \in ProcessErrors \cup
                         (IF i = 1 THEN {"failed to insert brands"} ELSE {}) :
                         logged' = Append(logged,
                                     [dataset |-> DatasetOrder[i], err |-> e])
                  /\ UNCHANGED outputFiles
               \/ /\ outputFiles' =
                         outputFiles \o ProcessFiles(DatasetOrder[i], mcompress)
                  /\ UNCHANGED logged
       ELSE UNCHANGED <<processed, logged, outputFiles>>
    /\ mpc' = AfterDataset(i)
    /\ UNCHANGED <<datasetSet, mcompress, nonMainVars>>

MainBrands == MainDataset(1)

MainCredentials == MainDataset(2)

MainApplications == MainDataset(3)

MainSales == MainDataset(4)

MainTax == MainDataset(5)

\* Compress DuckDB if requested, and report the file
MainDuckDB ==
    /\ mpc = "db"
    /\ IF mcompress
       THEN \/ mpc' = "fatal" /\ UNCHANGED outputFiles
            \/ /\ outputFiles' = Append(outputFiles, <<"dank-extract", "duckdb.zst">>)
               /\ mpc' = "done"
       ELSE /\ outputFiles' = Append(outputFiles, <<"dank-extract", "duckdb">>)
            /\ mpc' = "done"
    /\ UNCHANGED <<datasetSet, mcompress, processed, logged, nonMainVars>>

NextMain ==
    \/ MainBrands
    \/ MainCredentials
    \/ MainApplications
    \/ MainSales
    \/ MainTax
    \/ MainDuckDB

SpecMain == InitMain /\ [][NextMain]_vars

---------------------------------------------------------------------------
(* DBInsertCredentials and DBInsertWeeklySales on the DuckDB tables *)

MaxRows == 2

RECURSIVE digitsValue(_, _)
\* the value of a run of decimal digits, acc the value so far
digitsValue(s, acc) ==
    IF s = <<>> THEN acc
    ELSE digitsValue(Tail(s), acc * 10 + DigitVal(Head(s)))

\* n, _ := strconv.Atoi(c.Count): the integer of a decimal text, 0 when the
\* text is not one
CountInt(count) ==
    LET body == IF count # <<>> /\ Head(count) \in {"+", "-"}
                THEN Tail(count) ELSE count
    IN  IF body = <<>> \/ \E i \in DOMAIN body : ~IsDigit(body[i]) THEN 0
        ELSE IF Head(count) = "-" THEN 0 - digitsValue(body, 0)
        ELSE digitsValue(body, 0)

\* the Credential records of the inputs
Credentials ==
    {[CredentialType |-> "RETAILER", Status |-> "ACTIVE", Count |-> <<"3">>],
     [CredentialType |-> "RETAILER", Status |-> "ACTIVE", Count |-> <<"x">>],
     [CredentialType |-> "GROWER", Status |-> "ACTIVE",
      Count |-> <<"1", "2">>]}

\* the WeeklySales records of the inputs, one numeric column standing for the
\* eight
WeeklySalesRecords ==
    {[WeekEnding |-> "2024-01-06", Total |-> <<"5">>],
     [WeekEnding |-> "2024-01-06", Total |-> <<>>],
     [WeekEnding |-> "2024-01-13", Total |-> <<"7">>]}

\* the row of ct_credentials the INSERT writes for a credential
CredentialRow(c) ==
    [credential_type |-> c.CredentialType, status |-> c.Status,
     count |-> CountInt(c.Count)]

sqlNum(s) == IF s = <<>> THEN <<"N", "U", "L", "L">> ELSE s

\* the row of ct_weekly_sales the INSERT writes for a week
WeeklySalesRow(s) == [week_ending |-> s.WeekEnding, total |-> sqlNum(s.Total)]

\* two rows of the statement violate the unique index
\* ct_credentials_type_status
ViolatesTypeStatus(rows) ==
    \E i, j \in DOMAIN rows :
        /\ i # j
        /\ rows[i].credential_type = rows[j].credential_type
        /\ rows[i].status = rows[j].status

\* two rows of the statement violate the unique index ct_weekly_sales_week
ViolatesWeek(rows) ==
    \E i, j \in DOMAIN rows :
        i # j /\ rows[i].week_ending = rows[j].week_ending

InitDB == MeasureInit /\ RunOff /\ FetchOff /\ MainOff /\ DBOff

\* the call fn(conn, arg) has returned e and left the rows t in the table
Returned(fn, arg, e, table, t) ==
    /\ dbCall' = [fn |-> fn, arg |-> arg, err |-> e]
    /\ tables' = [tables EXCEPT ![table] = t]
    /\ before' = tables
    /\ UNCHANGED nonDBVars

\* DBInsertCredentials without the DELETE
DBInsertCredentialsAppends(credentials) ==
    LET rows == [i \in DOMAIN credentials |-> CredentialRow(credentials[i])]
        Done(e, t) ==
            Returned("DBInsertCredentials", credentials, e, "ct_credentials", t)
    IN  IF credentials = <<>> THEN Done("nil", tables.ct_credentials)
        ELSE \/ Done("failed to insert credentials", tables.ct_credentials)
             \/ /\ ~ViolatesTypeStatus(rows)
                /\ Done("nil", tables.ct_credentials \cup Range(rows))

\* DBInsertCredentials with the DELETE undone when the INSERT fails
DBInsertCredentialsAtomic(credentials) ==
    LET rows == [i \in DOMAIN credentials |-> CredentialRow(credentials[i])]
        Done(e, t) ==
            Returned("DBInsertCredentials", credentials, e, "ct_credentials", t)
    IN  IF credentials = <<>> THEN Done("nil", tables.ct_credentials)
        ELSE \/ Done("failed to clear credentials", tables.ct_credentials)
             \/ Done("failed to insert credentials", tables.ct_credentials)
             \/ /\ ~ViolatesTypeStatus(rows)
                /\ Done("nil", Range(rows))

\* DBInsertCredentials(conn, credentials): nothing for an empty list; the
\* DELETE fails; the DELETE is done and the INSERT fails, always so when two
\* rows share a key of the unique index; or both are done
DBInsertCredentials(credentials) ==
    LET rows == [i \in DOMAIN credentials |-> CredentialRow(credentials[i])]
        Done(e, t) ==
            Returned("DBInsertCredentials", credentials, e, "ct_credentials", t)
    IN  IF credentials = <<>> THEN Done("nil", tables.ct_credentials)
        ELSE \/ Done("failed to clear credentials", tables.ct_credentials)
             \/ Done("failed to insert credentials", {})
             \/ /\ ~ViolatesTypeStatus(rows)
                /\ Done("nil", Range(rows))

\* DBInsertWeeklySales(conn, sales), of the same shape
DBInsertWeeklySales(sales) ==
    LET rows == [i \in DOMAIN sales |-> WeeklySalesRow(sales[i])]
        Done(e, t) ==
            Returned("DBInsertWeeklySales", sales, e, "ct_weekly_sales", t)
    IN  IF sales = <<>> THEN Done("nil", tables.ct_weekly_sales)
        ELSE \/ Done("failed to clear weekly sales", tables.ct_weekly_sales)
             \/ Done("failed to insert weekly sales", {})
             \/ /\ ~ViolatesWeek(rows)
                /\ Done("nil", Range(rows))

CallDBInsertCredentials ==
    \E n \in 0..MaxRows :
        \E credentials \in [1..n -> Credentials] :
            DBInsertCredentials(credentials)

CallDBInsertWeeklySales ==
    \E n \in 0..MaxRows :
        \E sales \in [1..n -> WeeklySalesRecords] : DBInsertWeeklySales(sales)

NextDB ==
    \/ CallDBInsertCredentials
    \/ CallDBInsertWeeklySales

SpecDB == InitDB /\ [][NextDB]_vars

---------------------------------------------------------------------------
(* Vocabulary of the properties *)

\* the four states of a Measure, read through its predicates
StateOf(mm) ==
    IF IsEmpty(mm) THEN "Empty"
    ELSE IF IsZero(mm) THEN "Zero"
    ELSE IF IsTrace(mm) THEN "Trace"
    ELSE "Numeric"

\* FromString has returned from the call FromString(s)
FromStringDone(s) == pc = "done" /\ op = "FromString" /\ argStr = s

\* the documented empty test: "", ".", "-", or a leading "--"
DocEmptyTest(s) ==
    s \in {<<>>, <<".">>, <<"-">>} \/ (Len(s) >= 2 /\ s[1] = "-" /\ s[2] = "-")

\* the documented error test: more than one '.', one of , ` / ( ), a leading
\* ASCII letter, or a known-bad literal
DocErrorTest(s) ==
    \/ \E i, j \in 1..Len(s) : i < j /\ s[i] = "." /\ s[j] = "."
    \/ \E i \in 1..Len(s) : s[i] \in {",", Backquote, "/", "(", ")"}
    \/ (s # <<>> /\ s[1] \in Range(LowerLetters) \cup Range(UpperLetters))
    \/ s = <<"0", "<", "0", ".", "1", "0">>
    \/ (Len(s) >= 17 /\ SubSeq(s, 1, 17) = <<"t", "e", "r", "p", "i", "n", "o", "l", "e", "n", "e", ":", " ", "1", ".", "2", "2">>)
    \/ (Len(s) >= 15 /\ SubSeq(s, 1, 15) = <<"a", "-", "O", "c", "i", "m", "e", "n", "e", ":", " ", "1", ".", "0", "8">>)

\* the documented trace test: "TRC", a substring "LOQ", or a leading "<"
DocTraceTest(s) ==
    \/ s = <<"T", "R", "C">>
    \/ \E i \in 1..(Len(s) - 2) : s[i] = "L" /\ s[i + 1] = "O" /\ s[i + 2] = "Q"
    \/ (s # <<>> /\ s[1] = "<")

\* s without one leading ',', then one leading '>', then one trailing '%'
DocStrip(s) ==
    LET a == IF s # <<>> /\ s[1] = "," THEN Tail(s) ELSE s
        b == IF a # <<>> /\ a[1] = ">" THEN Tail(a) ELSE a
    IN  IF b # <<>> /\ b[Len(b)] = "%" THEN SubSeq(b, 1, Len(b) - 1) ELSE b

\* the float64 values 5, 45.3 and 100
F5 == Dec(FALSE, <<5>>, 1)

F45_3 == Dec(FALSE, <<4, 5, 3>>, 2)

F100 == Dec(FALSE, <<1>>, 3)

---------------------------------------------------------------------------
(* Properties *)

\* C1 as claimed: for each of "TRC", "<LOQ", "<0.1" and "0.5LOQ", FromString
\* returns no error and leaves the measure in the Trace state (IsTrace true,
\* IsEmpty false).
C1_TraceStrings ==
    \A s \in {<<"T", "R", "C">>, <<"<", "L", "O", "Q">>, <<"<", "0", ".", "1">>, <<"0", ".", "5", "L", "O", "Q">>} :
        FromStringDone(s) => err = "nil" /\ IsTrace(m) /\ ~IsEmpty(m)

\* C2 as claimed: FromString("notanumber") returns a parse error.
C2_NotANumberIsError ==
    FromStringDone(<<"n", "o", "t", "a", "n", "u", "m", "b", "e", "r">>) => err # "nil"

\* C2 as amended: FromString("notanumber") returns no error and yields Empty,
\* because its first character is an ASCII letter and the error test passes
\* before the float parse is reached; a string that passes none of the three
\* tests and fails the float parse, such as "5-5", is surfaced as a parse
\* error and the measure is left as it was.
C2_NotANumberIsEmpty ==
    /\ FromStringDone(<<"n", "o", "t", "a", "n", "u", "m", "b", "e", "r">>) => err = "nil" /\ StateOf(m) = "Empty"
    /\ FromStringDone(<<"5", "-", "5">>) => err # "nil" /\ m = prev

C2_Witness ==
    FromStringDone(<<"n", "o", "t", "a", "n", "u", "m", "b", "e", "r">>) /\ StateOf(prev) = "Numeric" /\ StateOf(m) = "Empty"

\* C3 as claimed: FromString(",5") returns no error and yields the Numeric
\* state with value 5 (the leading comma is stripped before the float parse).
C3_LeadingCommaStripped ==
    FromStringDone(<<",", "5">>) => err = "nil" /\ StateOf(m) = "Numeric" /\ m.amount = F5

\* C4: for every string that is "", ".", "-" or begins with "--",
\* FromString returns no error and yields Empty, whatever else the string
\* contains and whatever the measure held before.
C4_EmptyStrings ==
    (pc = "done" /\ op = "FromString" /\ DocEmptyTest(argStr))
        => err = "nil" /\ StateOf(m) = "Empty"

C4_Witness ==
    FromStringDone(<<"-", "-", "x">>) /\ StateOf(prev) = "Numeric" /\ StateOf(m) = "Empty"

C6_ErrorIffUnparseable ==
    (pc = "done" /\ op = "FromString")
        => ((err # "nil") <=>
              /\ ~DocEmptyTest(argStr)
              /\ ~DocErrorTest(argStr)
              /\ ~DocTraceTest(argStr)
              /\ ParseFloat(DocStrip(argStr)).err # "nil")

C6_Witness ==
    FromStringDone(<<"5", "%", "%">>) /\ err # "nil"

\* C7: for a string that passes none of the three tests, FromString strips
\* one leading '>' and one trailing '%' and parses the rest as a number:
\* "45.3" and "45.3%" both yield Numeric 45.3 and ">100" yields Numeric 100,
\* each with no error; only one '>' and one '%' are stripped.
C7_StripAndParse ==
    /\ \A s \in {<<"4", "5", ".", "3">>, <<"4", "5", ".", "3", "%">>} :
        FromStringDone(s) => err = "nil" /\ StateOf(m) = "Numeric" /\ m.amount = F45_3
    /\ FromStringDone(<<">", "1", "0", "0">>) => err = "nil" /\ StateOf(m) = "Numeric" /\ m.amount = F100
    /\ FromStringDone(<<">", "5", "%">>) => err = "nil" /\ StateOf(m) = "Numeric" /\ m.amount = F5
    /\ \A s \in {<<">", ">", "5">>, <<"5", "%", "%">>} : FromStringDone(s) => err # "nil"

C7_Witness ==
    FromStringDone(<<"4", "5", ".", "3", "%">>) /\ StateOf(prev) = "Empty" /\ m.amount = F45_3

\* the state an amount is documented to take: exactly 0 is Zero, negative is
\* Trace, every other amount is Numeric
DocStateOfAmount(a) ==
    IF FEq(a, FZero(FALSE)) THEN "Zero"
    ELSE IF FLt(a, FZero(FALSE)) THEN "Trace"
    ELSE "Numeric"

\* C8 as claimed: whether a measure is built by NewMeasure, by FromString or
\* by UnmarshalJSON from a number, an amount of exactly 0 becomes Zero, any
\* negative amount becomes Trace and every other amount becomes Numeric; hence
\* no measure is ever Numeric with a negative or zero value.
C8_AmountDecidesState ==
    /\ (pc = "done" /\ op = "NewMeasure")
        => StateOf(m) = DocStateOfAmount(argAmt)
    /\ (pc = "done" /\ op = "FromString" /\ err = "nil"
          /\ ~DocEmptyTest(argStr) /\ ~DocErrorTest(argStr) /\ ~DocTraceTest(argStr))
        => StateOf(m) = DocStateOfAmount(ParseFloat(DocStrip(argStr)).val)
    /\ (pc = "done" /\ op = "UnmarshalJSON" /\ err = "nil" /\ jsonIsNumber(argStr))
        => StateOf(m) = DocStateOfAmount(ParseFloat(argStr).val)
    /\ StateOf(m) = "Numeric" => FLt(FZero(FALSE), m.amount)

\* C9: every Measure reachable through NewMeasure, NewEmptyMeasure,
\* NewTraceMeasure, the zero value Measure{}, FromString, UnmarshalJSON and
\* UnmarshalCSV is in exactly one of the four states: at most one of IsEmpty,
\* IsZero, IsTrace is true (a measure for which all three are false is
\* Numeric); in particular a measure built from the amount 0 is Zero and is
\* never reported as Empty.
C9_ExactlyOneState ==
    /\ ~(IsEmpty(m) /\ IsZero(m))
    /\ ~(IsEmpty(m) /\ IsTrace(m))
    /\ ~(IsZero(m) /\ IsTrace(m))
    /\ (\/ (pc = "done" /\ op = "NewMeasure" /\ FEq(argAmt, FZero(FALSE)))
        \/ FromStringDone(<<"0">>)
        \/ (pc = "done" /\ op = "UnmarshalJSON" /\ argStr = <<"0">>)
        \/ (pc = "done" /\ op = "UnmarshalCSV" /\ argStr = <<"0">>))
        => IsZero(m) /\ ~IsEmpty(m)

C9_Witness ==
    /\ pc = "done" /\ op = "UnmarshalCSV" /\ argStr = <<"0">>
    /\ IsEmpty(prev)
    /\ IsZero(m) /\ ~IsEmpty(m) /\ ~IsTrace(m)

\* C10: IsValidPercent returns true if and only if the measure is Empty,
\* Zero, Trace, or Numeric with a value in the closed range [0, 100]; a
\* Numeric value above 100 (e.g. 150 or 90385) is invalid.
C10_ValidPercentIff ==
    IsValidPercent(m) <=>
        \/ StateOf(m) \in {"Empty", "Zero", "Trace"}
        \/ /\ StateOf(m) = "Numeric"
           /\ FLe(FZero(FALSE), m.amount)
           /\ FLe(m.amount, F100)

C10_Witness ==
    /\ FromStringDone(<<"9", "0", "3", "8", "5">>)
    /\ StateOf(m) = "Numeric"
    /\ ~IsValidPercent(m)

\* digits, a point, digits: the text of a decimal number
DecimalText(s) ==
    \E p \in 2..(Len(s) - 1) :
        /\ s[p] = "."
        /\ \A i \in (1..Len(s)) \ {p} : IsDigit(s[i])

\* C11 as claimed: in every state a measure can reach, AsCSV is "" for Empty
\* and Trace, "0" for Zero and a decimal string for Numeric; AsSQL is "NULL"
\* for Empty and Trace, "0" for Zero and a numeric literal for Numeric; and
\* Value() is nil exactly when AsSQL is "NULL".
C11_TabularAndRelational ==
    /\ StateOf(m) \in {"Empty", "Trace"} =>
           AsCSV(m) = <<>> /\ AsSQL(m) = SQLNull
    /\ StateOf(m) = "Zero" => AsCSV(m) = <<"0">> /\ AsSQL(m) = <<"0">>
    /\ StateOf(m) = "Numeric" =>
           DecimalText(AsCSV(m)) /\ DecimalText(AsSQL(m))
    /\ (Value(m).type = "nil") <=> (AsSQL(m) = SQLNull)

\* C12 as claimed: MarshalJSON gives null for Empty, 0 for Zero, the string
\* "<0.01" for Trace and a decimal number for Numeric, and two measures in
\* different states (here the measure before and after a call) never have the
\* same JSON form.
C12_JSONForms ==
    /\ StateOf(m) = "Empty" => MarshalJSON(m) = jsonNull
    /\ StateOf(m) = "Zero" => MarshalJSON(m) = <<"0">>
    /\ StateOf(m) = "Trace" => MarshalJSON(m) = <<Quote, "<", "0", ".", "0", "1", Quote>>
    /\ StateOf(m) = "Numeric" => DecimalText(MarshalJSON(m))
    /\ StateOf(m) # StateOf(prev) => MarshalJSON(m) # MarshalJSON(prev)

\* C16: in every state a measure can reach, Amount() is (0, false, true) for
\* Empty, (0, false, false) for Zero, (0, true, false) for Trace and
\* (v, false, false) for Numeric with amount v; the trace and empty flags are
\* never both true, and a trace reading is reported with the value 0.
C16_AmountDecomposition ==
    /\ StateOf(m) = "Empty" =>
        Amount(m) = [result |-> FZero(FALSE), trace |-> FALSE, empty |-> TRUE]
    /\ StateOf(m) = "Zero" =>
        Amount(m) = [result |-> FZero(FALSE), trace |-> FALSE, empty |-> FALSE]
    /\ StateOf(m) = "Trace" =>
        Amount(m) = [result |-> FZero(FALSE), trace |-> TRUE, empty |-> FALSE]
    /\ StateOf(m) = "Numeric" =>
        Amount(m) = [result |-> m.amount, trace |-> FALSE, empty |-> FALSE]
    /\ ~(Amount(m).trace /\ Amount(m).empty)
    /\ Amount(m).trace => IsFZero(Amount(m).result)

\* "<0.1" has been parsed to Trace and Amount() reports (0, true, false)
C16_Witness ==
    /\ FromStringDone(<<"<", "0", ".", "1">>)
    /\ StateOf(m) = "Trace"
    /\ Amount(m).trace
    /\ IsFZero(Amount(m).result)

\* the relational literal of prev has been parsed back by FromString
SQLRoundTripDone ==
    /\ pc = "done"
    /\ op = "FromString"
    /\ argStr = AsSQL(prev)

\* C13 as claimed: when the AsSQL literal of a Numeric measure with value in
\* [0, 100] has been passed back through FromString, no error is returned and
\* the measure is Numeric with the same value to the six decimals of the
\* literal.
C13_SQLRoundTrip ==
    (/\ SQLRoundTripDone
     /\ StateOf(prev) = "Numeric"
     /\ FLe(FZero(FALSE), prev.amount)
     /\ FLe(prev.amount, F100))
    => /\ err = "nil"
       /\ StateOf(m) = "Numeric"
       /\ SprintfF(m.amount) = SprintfF(prev.amount)

\* UnmarshalJSON has returned from the call UnmarshalJSON(b)
UnmarshalJSONDone(b) == pc = "done" /\ op = "UnmarshalJSON" /\ argStr = b

\* the outcome the dispatch of C14 prescribes, given js and jf, what decoding
\* the bytes as a string and as a number gives, and fs, what FromString
\* returns for the decoded string
DispatchOutcome(js, jf, fs) ==
    IF js.ok /\ fs.err = "nil"
    THEN err = "nil" /\ m = fs.m
    ELSE IF jf.ok
    THEN err = "nil" /\ StateOf(m) = DocStateOfAmount(jf.val)
                     /\ (StateOf(m) = "Numeric" => m.amount = jf.val)
    ELSE err # "nil"

\* C14: after UnmarshalJSON(b), b = null gives Empty without error; otherwise,
\* when b decodes as a string that FromString accepts the measure is what
\* FromString gives; failing that, when b decodes as a number, 0 gives Zero, a
\* negative number Trace and any other number Numeric with that value; and an
\* error is returned exactly when neither attempt succeeds.
C14_UnmarshalDispatch ==
    (pc = "done" /\ op = "UnmarshalJSON") =>
        IF argStr = jsonNull
        THEN err = "nil" /\ StateOf(m) = "Empty"
        ELSE DispatchOutcome(jsonUnmarshalString(argStr),
                             jsonUnmarshalFloat(argStr),
                             FromString(prev, jsonUnmarshalString(argStr).str))

\* the JSON number -5 has been decoded by the numeric attempt, into a measure
\* that was Numeric before, and has made it Trace
C14_Witness ==
    /\ UnmarshalJSONDone(<<"-", "5">>) /\ err = "nil" /\ StateOf(m) = "Trace"
                               /\ StateOf(prev) = "Numeric"

\* C15: whenever FromString(s) has succeeded, the measure it left is the one
\* FromString(s) leaves in a fresh Measure, whatever the receiver held before,
\* and a second FromString(s) on the result succeeds and changes nothing.
C15_ClassificationPure ==
    (pc = "done" /\ op = "FromString" /\ err = "nil") =>
        /\ m = FromString(MeasureZeroValue, argStr).m
        /\ FromString(m, argStr) = [m |-> m, err |-> "nil"]

\* FromString("45.3") has succeeded on a receiver that was Trace before
C15_Witness ==
    /\ FromStringDone(<<"4", "5", ".", "3">>)
    /\ err = "nil"
    /\ StateOf(prev) = "Trace"
    /\ StateOf(m) = "Numeric"

RECURSIVE DocTrimLeft(_)
\* s without its leading spaces
DocTrimLeft(s) == IF s # <<>> /\ s[1] = " " THEN DocTrimLeft(Tail(s)) ELSE s

RECURSIVE DocTrimRight(_)
\* s without its trailing spaces
DocTrimRight(s) ==
    IF s # <<>> /\ s[Len(s)] = " "
    THEN DocTrimRight(SubSeq(s, 1, Len(s) - 1))
    ELSE s

\* the whitespace-trimmed form of s
DocTrim(s) == DocTrimRight(DocTrimLeft(s))

\* the call that has returned had the error outcome and the state of r
SameOutcomeAs(r) ==
    /\ (err = "nil") <=> (r.err = "nil")
    /\ StateOf(m) = StateOf(r.m)

\* C20 as claimed: FromString(s) gives the state and the error outcome that
\* FromString gives on the same receiver for s without its leading and
\* trailing spaces.
C20_TrimmedClassification ==
    (pc = "done" /\ op = "FromString") =>
        SameOutcomeAs(FromString(prev, DocTrim(argStr)))

\* a parsed field is documented percent-valid: parsed without error, and
\* Empty, Zero, Trace or Numeric within [0, 100]
DocParsedValid(r) ==
    /\ r.err = "nil"
    /\ \/ StateOf(r.m) \in {"Empty", "Zero", "Trace"}
       \/ /\ StateOf(r.m) = "Numeric"
          /\ FLe(FZero(FALSE), r.m.amount)
          /\ FLe(r.m.amount, F100)

\* every designated field of the record is documented percent-valid
DocRecordValid(rec) ==
    \A i \in DOMAIN rec : DocParsedValid(FromString(MeasureZeroValue, rec[i]))

RECURSIVE DocKept(_)
\* the documented valid records of recs, in the order of recs
DocKept(recs) ==
    IF recs = <<>> THEN <<>>
    ELSE IF DocRecordValid(Head(recs)) THEN <<Head(recs)>> \o DocKept(Tail(recs))
    ELSE DocKept(Tail(recs))

CachePresentAndParses == cache.state # "missing" /\ cache.parses

\* C18: in a call with --no-fetch the API is never requested; when the cache
\* file exists and parses, however old it is, the records are loaded from it;
\* and when it is missing or does not parse the call returns an error, with no
\* file written to the output directory and no file reported.
C18_NoFetchUsesCacheOnly ==
    noFetch =>
        /\ ~apiCalled
        /\ (rpc # "start" /\ CachePresentAndParses) =>
               /\ perr \notin {"failed to load cache",
                               "failed to parse cached data"}
               /\ (rpc = AfterLoad => records = upstream)
        /\ (rpc # "start" /\ ~CachePresentAndParses) =>
               /\ rpc = "returned"
               /\ perr \in {"failed to load cache",
                            "failed to parse cached data"}
               /\ files = {}
               /\ outFiles = <<>>

\* a --no-fetch call on credentials with a cache file older than the age
\* limit has returned its two output files without a request to the API
C18_Witness ==
    /\ noFetch
    /\ dataset = "credentials"
    /\ cache = [state |-> "stale", parses |-> TRUE]
    /\ rpc = "returned"
    /\ perr = "nil"
    /\ Len(outFiles) = 2
    /\ ~apiCalled

\* C21 as claimed: in every state a measure can reach through NewMeasure,
\* FromString, UnmarshalJSON or UnmarshalCSV, a Numeric measure holds a finite
\* value, neither infinite nor not-a-number.
C21_NumericIsFinite ==
    StateOf(m) = "Numeric" => m.amount.k = "fin"

\* C22: when FromString, UnmarshalJSON or UnmarshalCSV has returned an error,
\* the measure is what it was before the call.
C22_ErrorLeavesReceiver ==
    (/\ pc = "done"
     /\ op \in {"FromString", "UnmarshalJSON", "UnmarshalCSV"}
     /\ err # "nil")
    => m = prev

\* FromString("5-5") has returned an error on a Numeric measure, which is
\* still the same Numeric measure
C22_Witness ==
    /\ FromStringDone(<<"5", "-", "5">>)
    /\ err # "nil"
    /\ StateOf(prev) = "Numeric"
    /\ m = prev

\* C23 as claimed: when the output of MarshalJSON of a measure has been given
\* to UnmarshalJSON, no error is returned and the measure is in the state it
\* was in before.
C23_JSONRoundTrip ==
    (/\ pc = "done"
     /\ op = "UnmarshalJSON"
     /\ argStr = MarshalJSON(prev))
    => /\ err = "nil"
       /\ StateOf(m) = StateOf(prev)

\* the batch size b of the claims: BatchSize, or 5000 when BatchSize is 0
DocBatch == IF cfg.BatchSize = 0 THEN 5000 ELSE cfg.BatchSize

RECURSIVE Concat(_)
\* the batches one after another
Concat(bs) == IF bs = <<>> THEN <<>> ELSE Head(bs) \o Concat(Tail(bs))

\* C24: at every point of a FetchSocrata call the i-th request carries
\* $limit = b and $offset = (i-1)*b, no request follows a batch of fewer than
\* b records, and a call that returns records fetched from the API returns the
\* batches concatenated in request order.
C24_PaginatesInOrder ==
    /\ \A i \in 1..Len(requests) :
           /\ requests[i].limit = DocBatch
           /\ requests[i].offset = (i - 1) * DocBatch
    /\ \A i \in 1..Len(batches) :
           Len(batches[i]) < DocBatch => i = Len(requests)
    /\ (fpc = "returned" /\ ferr = "nil" /\ requests # <<>>) =>
           fresult = Concat(batches)

\* four records fetched with b = 2: requests at offsets 0, 2 and 4, the last
\* answered by an empty batch, and the four records returned in order
C24_Witness ==
    /\ fpc = "returned"
    /\ ferr = "nil"
    /\ requests = <<[limit |-> 2, offset |-> 0], [limit |-> 2, offset |-> 2],
                    [limit |-> 2, offset |-> 4]>>
    /\ batches = <<<<1, 2>>, <<3, 4>>, <<>>>>
    /\ fresult = <<1, 2, 3, 4>>

\* the call has returned records fetched from the API, every page answered
FetchedAll == fpc = "returned" /\ ferr = "nil" /\ requests # <<>>

\* C25: a FetchSocrata call always terminates, and when every page was answered
\* by the server, holding N records, it has issued exactly floor(N/b)+1
\* requests and returns each of the N records exactly once.
C25_TerminatesWithAllRecords ==
    /\ <>(fpc = "returned")
    /\ [](FetchedAll =>
            /\ Len(requests) = (serverN \div DocBatch) + 1
            /\ Len(fresult) = serverN
            /\ \A r \in 1..serverN :
                   Cardinality({i \in 1..Len(fresult) : fresult[i] = r}) = 1)

\* four records and b = 2, a multiple: three requests, the last one answered
\* by an empty batch
C25_Witness ==
    /\ FetchedAll
    /\ serverN = 4
    /\ cfg.BatchSize = 2
    /\ Len(requests) = 3
    /\ batches[3] = <<>>
    /\ Len(fresult) = 4

\* the cache file is readable within maxCacheAge and unmarshals
CacheUsable == CheckCacheFile(fcache, "maxCacheAge") /\ fcache.parses

\* C26: the first step of a FetchSocrata call with a usable cache returns the
\* cached records with no error, no request and the cache file as it was; with
\* a cache that is missing, too old or does not unmarshal it goes on to the API
\* fetch, whose only failure at that point is an unparsable URL; and a call
\* that returned the cached records never issued a request or wrote the cache.
C26_CacheHitOrFallThrough ==
    /\ [][fpc = "start" =>
             IF CacheUsable
             THEN /\ fpc' = "returned"
                  /\ ferr' = "nil"
                  /\ fresult' = fcache.content
                  /\ requests' = <<>>
                  /\ fcache' = fcache
                  /\ cacheWrites' = 0
             ELSE IF cfg.urlOK
             THEN fpc' = "page" /\ ferr' = "nil"
             ELSE fpc' = "returned" /\ ferr' = "failed to parse URL"]_vars
    /\ []((fpc = "returned" /\ ferr = "nil" /\ requests = <<>>) =>
              fresult = fcache.content /\ cacheWrites = 0)

\* a fresh cache of three records is returned while the server holds four
C26_Witness ==
    /\ fpc = "returned"
    /\ ferr = "nil"
    /\ serverN = 4
    /\ requests = <<>>
    /\ cacheWrites = 0
    /\ fresult = <<1, 2, 3>>
    /\ fcache = [state |-> "fresh", parses |-> TRUE, content |-> <<1, 2, 3>>]

\* C27: a call that returns an error returns no records and has not written
\* the cache file, whatever pages it had fetched; the cache is written at most
\* once, by the step after the last page, and when the written file unmarshals
\* it holds the combined result; that step never returns an error.
C27_FailureDiscardsPages ==
    /\ []((fpc = "returned" /\ ferr # "nil") =>
              fresult = <<>> /\ cacheWrites = 0)
    /\ [](cacheWrites <= 1)
    /\ [](cacheWrites = 1 =>
              /\ fpc = "returned"
              /\ ferr = "nil"
              /\ fresult = Concat(batches)
              /\ fcache.state = "fresh"
              /\ fcache.parses => fcache.content = Concat(batches))
    /\ [][/\ ferr' # "nil" => fcache' = fcache
          /\ fpc # "cache" => fcache' = fcache
          /\ fpc = "cache" =>
                 fpc' = "returned" /\ ferr' = "nil" /\ fresult' = allItems]_vars

\* the second page fails after a first full page was fetched
C27_Witness ==
    /\ fpc = "returned"
    /\ ferr = "failed to unmarshal result"
    /\ Len(requests) = 2
    /\ batches = <<<<1, 2>>>>
    /\ allItems = <<1, 2>>
    /\ fresult = <<>>
    /\ cacheWrites = 0

\* the fixed order of the datasets
DocOrder == <<"brands", "credentials", "applications", "sales", "tax">>

\* how many datasets main has passed
DocPassed ==
    IF mpc \in {"db", "done", "fatal"} THEN Len(DocOrder)
    ELSE (CHOOSE i \in DOMAIN DocOrder : DocOrder[i] = mpc) - 1

DocSelected(d) == d \in datasetSet

\* the datasets of the logged errors
DocFailed == {logged[i].dataset : i \in DOMAIN logged}

\* C28: at every point of main the datasets processed so far are the selected
\* ones among those passed, in the order brands, credentials, applications,
\* sales, tax, whatever errors the earlier ones returned; every processed
\* dataset either has its error logged once or has its files among the output
\* files, never both.
C28_DatasetsInOrderErrorsLogged ==
    /\ processed = SelectSeq(SubSeq(DocOrder, 1, DocPassed), DocSelected)
    /\ \A i \in DOMAIN processed :
           LET d == processed[i]
               entries == {j \in DOMAIN logged : logged[j].dataset = d}
               reported == {j \in DOMAIN outputFiles : outputFiles[j][1] = d}
           IN  \/ Cardinality(entries) = 1 /\ reported = {}
               \/ entries = {} /\ Cardinality(reported) = 2
    /\ DocFailed \subseteq {processed[i] : i \in DOMAIN processed}
    /\ \A j \in DOMAIN outputFiles : outputFiles[j][1] \notin DocFailed

\* all five selected, credentials fails, the three after it are processed and
\* their files reported
C28_Witness ==
    /\ mpc = "done"
    /\ datasetSet = Datasets
    /\ processed = DocOrder
    /\ logged = <<[dataset |-> "credentials", err |-> "failed to fetch"]>>
    /\ Len(outputFiles) = 9
    /\ outputFiles[8] = <<"tax", "json">>

\* the table a function writes
DocTable == IF dbCall.fn = "DBInsertCredentials" THEN "ct_credentials"
            ELSE "ct_weekly_sales"

\* the rows of the list of the last call, as table rows
DocRows ==
    IF dbCall.fn = "DBInsertCredentials"
    THEN {[credential_type |-> dbCall.arg[i].CredentialType,
           status |-> dbCall.arg[i].Status,
           count |-> IF dbCall.arg[i].Count = <<"3">> THEN 3
                     ELSE IF dbCall.arg[i].Count = <<"1", "2">> THEN 12
                     ELSE 0] : i \in DOMAIN dbCall.arg}
    ELSE {[week_ending |-> dbCall.arg[i].WeekEnding,
           total |-> IF dbCall.arg[i].Total = <<>>
                     THEN <<"N", "U", "L", "L">>
                     ELSE dbCall.arg[i].Total] : i \in DOMAIN dbCall.arg}

\* C29: after a call of DBInsertCredentials or DBInsertWeeklySales that
\* returned nil for a non-empty list, the table holds the rows of the list
\* and no other row, one row per element; after a call with an empty list the
\* error is nil and the table is what it was; the other table is untouched.
C29_SnapshotReplace ==
    dbCall.fn # "none" =>
        /\ (dbCall.arg # <<>> /\ dbCall.err = "nil") =>
               /\ tables[DocTable] = DocRows
               /\ Cardinality(tables[DocTable]) = Len(dbCall.arg)
               /\ (before[DocTable] \ DocRows) \cap tables[DocTable] = {}
        /\ dbCall.arg = <<>> => dbCall.err = "nil" /\ tables = before
        /\ \A t \in DOMAIN tables : t # DocTable => tables[t] = before[t]

\* a table of two rows replaced by a list of one other row
C29_Witness ==
    /\ dbCall.fn = "DBInsertCredentials"
    /\ dbCall.err = "nil"
    /\ Len(dbCall.arg) = 1
    /\ Cardinality(before.ct_credentials) = 2
    /\ tables.ct_credentials =
           {[credential_type |-> "RETAILER", status |-> "ACTIVE", count |-> 0]}
    /\ tables.ct_credentials \cap before.ct_credentials = {}

\* two elements of the list of the last call have the same credential_type
\* and status
DocSameTypeAndStatus ==
    \E i, j \in DOMAIN dbCall.arg :
        /\ i # j
        /\ dbCall.arg[i].CredentialType = dbCall.arg[j].CredentialType
        /\ dbCall.arg[i].Status = dbCall.arg[j].Status

\* C30: a call of DBInsertCredentials whose INSERT failed returns an error and
\* leaves ct_credentials empty, whatever it held before; a list with two rows
\* of the same credential_type and status always fails, in the INSERT unless
\* the DELETE failed already.
C30_NotAtomic ==
    dbCall.fn = "DBInsertCredentials" =>
        /\ dbCall.err = "failed to insert credentials" =>
               tables.ct_credentials = {}
        /\ DocSameTypeAndStatus =>
               dbCall.err \in {"failed to clear credentials",
                               "failed to insert credentials"}

\* a list with the same type and status twice empties a table of two rows
C30_Witness ==
    /\ dbCall.fn = "DBInsertCredentials"
    /\ DocSameTypeAndStatus
    /\ dbCall.err = "failed to insert credentials"
    /\ Cardinality(before.ct_credentials) = 2
    /\ tables.ct_credentials = {}

====
